---------------------------- MODULE Spec2Model ----------------------------
(***************************************************************************)
(* The RDS block synchroniser of redsea (src/block_sync.cc), its error     *)
(* corrector, the 50-block running sum (src/util.h) and the group          *)
(* assembler (Group::setBlock, src/groups.cc), as a state machine.         *)
(*                                                                         *)
(* A process holds BlockStream objects (one per channel).  Every           *)
(* BlockStream has the fields of block_sync.h; the SyncPulseBuffer is the   *)
(* function-local static of BlockStream::acquireSync and so is one object  *)
(* for the whole process.  The handlers are operators on these values,     *)
(* named as in the source; the actions apply BlockStream::pushBit and      *)
(* BlockStream::popGroup to the bits of an input stream.  The groups are   *)
(* handed to a Station (Station::updateAndPrint, src/groups.cc), of which  *)
(* the PI policy, the dispatch and the ODA registrations are modelled, and *)
(* are written as text by Group::printHex.                                 *)
(***************************************************************************)
EXTENDS Integers, Sequences, FiniteSets, TLC

VARIABLES
  profile,      \* the input: which bit stream the bit source delivers
  streams,      \* [Inst -> BlockStream]: the BlockStream objects of the process
  sync_buffer,  \* the static SyncPulseBuffer inside BlockStream::acquireSync
  solo,         \* history: channel 1's input pushed through a process of its own
  log,          \* history: [Inst -> the groups made ready, with their bit positions]
  acq,          \* history: [Inst -> the bit positions at which sync was acquired]
  seen,         \* history: [Inst -> the offset-labelled windows met while out of sync]
  last,         \* history: the last operation, with the block decision it made
  station,      \* the Station that the emitted groups are handed to
  taken         \* history: the groups the polling consumer took, and whether
                \* it has polled after every bit so far

vars == <<profile, streams, sync_buffer, solo, log, acq, seen, last, station, taken>>

---------------------------------------------------------------------------
(* Constants of block_sync.cc                                              *)

kBlockLength == 26
kBlockBitmask == 2^kBlockLength - 1
kCheckwordLength == 10
kSumWindow == 50
kSyncLossThreshold == 45
kMaxSyncBlocks == 6
kNumPulses == 4
kRegisterWidth == 32
kUint16 == 2^16

Offsets == {"A", "B", "C", "Cprime", "D", "invalid"}
RealOffsets == {"A", "B", "C", "Cprime", "D"}

BLOCK1 == 0
BLOCK2 == 1
BLOCK3 == 2
BLOCK4 == 3

---------------------------------------------------------------------------
(* Integer helpers: C++ operators on unsigned and int values               *)

\* a ^ b on unsigned values
RECURSIVE Xor(_, _)
Xor(a, b) ==
  IF a = 0 THEN b
  ELSE IF b = 0 THEN a
  ELSE ((a + b) % 2) + 2 * Xor(a \div 2, b \div 2)

\* (vec >> k) & 0b1
BitOf(vec, k) == (vec \div 2^k) % 2

\* a uint32_t is kept as its low kBlockLength bits (lo) and the bits above (hi)
Uint32(value) ==
  [lo |-> value % (kBlockBitmask + 1),
   hi |-> (value \div (kBlockBitmask + 1)) % 2^(kRegisterWidth - kBlockLength)]

\* (reg << 1) + bit on a uint32_t
ShiftIn(reg, bit) ==
  [lo |-> (reg.lo * 2 + bit) % (kBlockBitmask + 1),
   hi |-> (reg.hi * 2 + (reg.lo * 2 + bit) \div (kBlockBitmask + 1))
            % 2^(kRegisterWidth - kBlockLength)]

\* int division and remainder of C++: the quotient is truncated toward zero
CDiv(a, b) == IF a >= 0 THEN a \div b ELSE -((-a) \div b)
CMod(a, b) == a - b * CDiv(a, b)

---------------------------------------------------------------------------
(* Offsets, syndromes, error correction                                    *)

getBlockNumberForOffset(offset) ==
  CASE offset = "A" -> BLOCK1
    [] offset = "B" -> BLOCK2
    [] offset = "C" -> BLOCK3
    [] offset = "Cprime" -> BLOCK3
    [] offset = "D" -> BLOCK4
    [] OTHER -> BLOCK1

getNextOffsetFor_CprimeStays(this_offset) ==
  IF this_offset = "Cprime" THEN "Cprime"
  ELSE IF this_offset = "A" THEN "B"
  ELSE IF this_offset = "B" THEN "C"
  ELSE IF this_offset = "C" THEN "D"
  ELSE "A"

getNextOffsetFor(this_offset) ==
  CASE this_offset = "A" -> "B"
    [] this_offset = "B" -> "C"
    [] this_offset = "C" -> "D"
    [] this_offset = "Cprime" -> "D"
    [] this_offset = "D" -> "A"
    [] OTHER -> "A"

\* mutant: the syndromes of C and C' are exchanged
getOffsetForSyndrome_Swapped(syndrome) ==
  CASE syndrome = \b1111011000 -> "A"
    [] syndrome = \b1111010100 -> "B"
    [] syndrome = \b1111001100 -> "C"
    [] syndrome = \b1001011100 -> "Cprime"
    [] syndrome = \b1001011000 -> "D"
    [] OTHER -> "invalid"

getOffsetForSyndrome(syndrome) ==
  CASE syndrome = \b1111011000 -> "A"
    [] syndrome = \b1111010100 -> "B"
    [] syndrome = \b1001011100 -> "C"
    [] syndrome = \b1111001100 -> "Cprime"
    [] syndrome = \b1001011000 -> "D"
    [] OTHER -> "invalid"

parity_check_matrix ==
  << \b1000000000, \b0100000000, \b0010000000, \b0001000000, \b0000100000,
     \b0000010000, \b0000001000, \b0000000100, \b0000000010, \b0000000001,
     \b1011011100, \b0101101110, \b0010110111, \b1010000111, \b1110011111,
     \b1100010011, \b1101010101, \b1101110110, \b0110111011, \b1000000001,
     \b1111011100, \b0111101110, \b0011110111, \b1010100111, \b1110001111,
     \b1100011011 >>

\* the loop of calculateSyndrome from k on; parity_check_matrix[size - 1 - k]
\* of the 0-based array is element size - k of the 1-based sequence
RECURSIVE SyndromeFrom(_, _)
SyndromeFrom(vec, k) ==
  IF k = Len(parity_check_matrix) THEN 0
  ELSE Xor(parity_check_matrix[Len(parity_check_matrix) - k] * BitOf(vec, k),
           SyndromeFrom(vec, k + 1))

calculateSyndrome(vec) == SyndromeFrom(vec, 0)

offset_words ==
  [o \in RealOffsets |->
     CASE o = "A" -> \b0011111100
       [] o = "B" -> \b0110011000
       [] o = "C" -> \b0101101000
       [] o = "Cprime" -> \b1101010000
       [] o = "D" -> \b0110110100]

\* the error vectors makeErrorLookupTable tries for one offset, in the order of
\* its loops: error_bits 0b1 with shift 0..25, then error_bits 0b11 with shift 0..25
ErrorVector(i) ==
  LET error_bits == IF i <= kBlockLength THEN 1 ELSE 3
      shift == (i - 1) % kBlockLength
  IN  (error_bits * 2^shift) % (kBlockBitmask + 1)

\* makeErrorLookupTable: for each offset the inserted (syndrome, error_vector)
\* pairs in insertion order; std::map::insert keeps the first pair of a key
makeErrorLookupTable ==
  [o \in RealOffsets |->
     [i \in 1..(2 * kBlockLength) |->
        [syndrome |-> calculateSyndrome(Xor(ErrorVector(i), offset_words[o])),
         error_vector |-> ErrorVector(i)]]]

error_lookup_table == makeErrorLookupTable

\* error_lookup_table.find({syndrome, expected_offset}): 0 stands for end()
LookupIndex(syndrome, expected_offset) ==
  IF expected_offset \notin RealOffsets THEN 0
  ELSE LET hits == {i \in DOMAIN error_lookup_table[expected_offset] :
                      error_lookup_table[expected_offset][i].syndrome = syndrome}
       IN  IF hits = {} THEN 0 ELSE CHOOSE i \in hits : \A j \in hits : i <= j

\* mutant: the error vector found is not applied to the block
correctBurstErrors_Unapplied(raw, expected_offset) ==
  [succeeded |-> LookupIndex(calculateSyndrome(raw) % kUint16, expected_offset) # 0,
   corrected_bits |-> raw]

\* mutant: on failure corrected_bits keeps the default of ErrorCorrectionResult
correctBurstErrors_ZeroOnFailure(raw, expected_offset) ==
  IF LookupIndex(calculateSyndrome(raw) % kUint16, expected_offset) # 0
    THEN [succeeded |-> TRUE,
          corrected_bits |->
            Xor(raw, error_lookup_table[expected_offset][
                       LookupIndex(calculateSyndrome(raw) % kUint16, expected_offset)]
                       .error_vector)]
    ELSE [succeeded |-> FALSE, corrected_bits |-> 0]

correctBurstErrors(raw, expected_offset) ==
  LET syndrome == calculateSyndrome(raw) % kUint16
      search == LookupIndex(syndrome, expected_offset)
  IN  IF search # 0
        THEN [succeeded |-> TRUE,
              corrected_bits |->
                Xor(raw, error_lookup_table[expected_offset][search].error_vector)]
        ELSE [succeeded |-> FALSE, corrected_bits |-> raw]

---------------------------------------------------------------------------
(* RunningSum<int, 50> (util.h)                                            *)

RunningSum_new == [history_ |-> [i \in 0..(kSumWindow - 1) |-> 0], pointer_ |-> 0]

RECURSIVE SumUpTo(_, _)
SumUpTo(h, n) == IF n < 0 THEN 0 ELSE h[n] + SumUpTo(h, n - 1)

getSum(rs) == SumUpTo(rs.history_, kSumWindow - 1)

\* mutant: the write position wraps one entry early
RunningSum_push_ShortWindow(rs, number) ==
  [history_ |-> [rs.history_ EXCEPT ![rs.pointer_] = number],
   pointer_ |-> (rs.pointer_ + 1) % (kSumWindow - 1)]

RunningSum_push(rs, number) ==
  [history_ |-> [rs.history_ EXCEPT ![rs.pointer_] = number],
   pointer_ |-> (rs.pointer_ + 1) % kSumWindow]

\* mutant: clear leaves the history as it is
RunningSum_clear_Noop(rs) == rs

RunningSum_clear(rs) ==
  [rs EXCEPT !.history_ = [i \in 0..(kSumWindow - 1) |-> 0]]

---------------------------------------------------------------------------
(* Block and Group (groups.cc)                                             *)

Block_new ==
  [raw |-> 0, data |-> 0, is_received |-> FALSE, had_errors |-> FALSE,
   offset |-> "invalid"]

\* GroupType(type_code)
GroupType(type_code) ==
  [number |-> (type_code \div 2) % 16,
   version |-> IF type_code % 2 = 0 THEN "A" ELSE "B"]

\* getBits<5>(word, 11)
getBits5at11(word) == (word \div 2^11) % 32

Group_new ==
  [blocks_ |-> [b \in BLOCK1..BLOCK4 |-> Block_new],
   type_ |-> GroupType(0),
   has_type_ |-> FALSE,
   has_c_prime_ |-> FALSE,
   no_offsets_ |-> FALSE]

has(group, block_num) == group.blocks_[block_num].is_received

hasType(group) == group.has_type_

getType(group) == group.type_

\* mutant: the PI is looked for in slot 1 only
hasPI_SlotOneOnly(group) == group.blocks_[BLOCK1].is_received

hasPI(group) ==
  \/ group.blocks_[BLOCK1].is_received
  \/ (group.blocks_[BLOCK3].is_received /\ group.blocks_[BLOCK3].offset = "Cprime")

getPI(group) ==
  IF group.blocks_[BLOCK1].is_received THEN group.blocks_[BLOCK1].data
  ELSE IF group.blocks_[BLOCK3].is_received /\ group.blocks_[BLOCK3].offset = "Cprime"
    THEN group.blocks_[BLOCK3].data
  ELSE 0

\* mutant: a C' block only ever grants the type, to version-B groups
CprimeRule_GrantOnly(group, block) ==
  IF block.offset = "Cprime" /\ has(group, BLOCK2) /\ group.type_.version = "B"
    THEN [group EXCEPT !.has_type_ = TRUE]
    ELSE group

\* the closing statement of setBlock
CprimeRule(group, block) ==
  IF block.offset = "Cprime" /\ has(group, BLOCK2)
    THEN [group EXCEPT !.has_type_ = (group.type_.version = "B")]
    ELSE group

setBlock(group, block_num, block) ==
  LET g1 == [group EXCEPT !.blocks_[block_num] = block]
      g2 ==
        IF block_num = BLOCK2
          THEN LET t == GroupType(getBits5at11(block.data))
               IN  [g1 EXCEPT !.type_ = t,
                              !.has_type_ = IF t.version = "A" THEN TRUE
                                            ELSE (g1.has_c_prime_ \/ g1.no_offsets_)]
        ELSE IF block_num = BLOCK4
          THEN IF g1.has_c_prime_ /\ ~g1.has_type_
                 THEN LET potential_type == GroupType(getBits5at11(block.data))
                      IN  IF potential_type.number = 15 /\ potential_type.version = "B"
                            THEN [g1 EXCEPT !.type_ = potential_type, !.has_type_ = TRUE]
                            ELSE g1
                 ELSE g1
        ELSE g1
  IN  CprimeRule(g2, block)

---------------------------------------------------------------------------
(* Group::printHex (groups.cc): the text written to the stream             *)

kHexDigits ==
  <<"0", "1", "2", "3", "4", "5", "6", "7", "8", "9", "A", "B", "C", "D", "E", "F">>

\* operator<< of an integer under std::hex and uppercase: the digits of the
\* value, without leading zeros
RECURSIVE HexDigitsOf(_)
HexDigitsOf(n) ==
  IF n < 16 THEN kHexDigits[n + 1]
  ELSE HexDigitsOf(n \div 16) \o kHexDigits[(n % 16) + 1]

\* std::setw(width) with fill character fill: padding on the left
RECURSIVE Padded(_, _, _)
Padded(text, width, fill) ==
  IF Len(text) >= width THEN text ELSE Padded(fill \o text, width, fill)

\* mutant: the field width is not set
HexWord_Unpadded(data) == HexDigitsOf(data)

\* *stream << std::hex << std::setw(4) << block.data
HexWord(data) == Padded(HexDigitsOf(data), 4, "0")

\* one turn of the loop of printHex
PrintBlock(group, block_num) ==
  (IF group.blocks_[block_num].is_received
     THEN HexWord(group.blocks_[block_num].data)
     ELSE "----")
  \o (IF block_num # BLOCK4 THEN " " ELSE "")

printHex(group) ==
  PrintBlock(group, BLOCK1) \o PrintBlock(group, BLOCK2)
    \o PrintBlock(group, BLOCK3) \o PrintBlock(group, BLOCK4)

---------------------------------------------------------------------------
(* Station (groups.cc): the PI policy and the dispatch of updateAndPrint.  *)
(* The accumulators of the typed decoders (PS, RadioText, ...) are left    *)
(* out: of the state of a Station only has_pi_, last_group_had_pi_ and the *)
(* ODA registrations take part in the choice of the handler.               *)

isEmpty(group) ==
  ~(has(group, BLOCK1) \/ has(group, BLOCK2) \/ has(group, BLOCK3) \/ has(group, BLOCK4))

getBlock2(group) == group.blocks_[BLOCK2].data

getBlock4(group) == group.blocks_[BLOCK4].data

\* getBits<5>(word, 0)
getBits5at0(word) == word % 32

\* getBits<5>(word, 5)
getBits5at5(word) == (word \div 2^5) % 32

\* getBits<1>(word, 10)
getBits1at10(word) == (word \div 2^10) % 2

\* Station(pi, options, which_channel, has_pi); no ODA is registered
Station_new(pi, has_pi, last_group_had_pi) ==
  [pi_ |-> pi, has_pi_ |-> has_pi, last_group_had_pi_ |-> last_group_had_pi,
   oda_app_for_group_ |-> << >>]

\* the Station of the specifications that hand no group to any Station
NoStation == Station_new(0, FALSE, FALSE)

\* mutant: every group without PI is let through
PIPolicy_AnyMiss(st, group) ==
  IF ~st.has_pi_ THEN [pass |-> FALSE, station |-> st]
  ELSE [pass |-> TRUE, station |-> [st EXCEPT !.last_group_had_pi_ = hasPI(group)]]

\* the head of updateAndPrint: one group with missed PI is allowed
PIPolicy(st, group) ==
  IF ~st.has_pi_ THEN [pass |-> FALSE, station |-> st]
  ELSE IF hasPI(group)
    THEN [pass |-> TRUE, station |-> [st EXCEPT !.last_group_had_pi_ = TRUE]]
  ELSE IF st.last_group_had_pi_
    THEN [pass |-> TRUE, station |-> [st EXCEPT !.last_group_had_pi_ = FALSE]]
  ELSE [pass |-> FALSE, station |-> st]

NoBasics == [group |-> "none", tp |-> -1, prog_type |-> -1]

decodeBasics(group) ==
  IF has(group, BLOCK2)
    THEN [group |-> IF hasType(group) THEN getType(group) ELSE "none",
          tp |-> getBits1at10(getBlock2(group)),
          prog_type |-> getBits5at5(getBlock2(group))]
  ELSE IF /\ getType(group).number = 15 /\ getType(group).version = "B"
          /\ has(group, BLOCK4)
    THEN [group |-> getType(group),
          tp |-> getBits1at10(getBlock4(group)),
          prog_type |-> getBits5at5(getBlock4(group))]
  ELSE NoBasics

\* mutant: the first registration of a group type is kept
decodeType3A_FirstWins(st, group) ==
  IF ~(has(group, BLOCK3) /\ has(group, BLOCK4)) THEN st
  ELSE IF getType(group).version # "A" THEN st
  ELSE [st EXCEPT !.oda_app_for_group_ =
          @ @@ (GroupType(getBits5at0(getBlock2(group))) :> getBlock4(group))]

\* decodeType3A: the registration of an ODA (the TMC system information and
\* the output fields are left out)
decodeType3A(st, group) ==
  IF ~(has(group, BLOCK3) /\ has(group, BLOCK4)) THEN st
  ELSE IF getType(group).version # "A" THEN st
  ELSE [st EXCEPT !.oda_app_for_group_ =
          (GroupType(getBits5at0(getBlock2(group))) :> getBlock4(group)) @@ @]

NoOda == [sink |-> "none", has_app |-> FALSE, app_id |-> 0]

\* decodeODAGroup: which part of it handles the group
decodeODAGroup(st, group) ==
  IF getType(group) \notin DOMAIN st.oda_app_for_group_
    THEN [sink |-> "unknown_oda", has_app |-> FALSE, app_id |-> 0]
  ELSE IF st.oda_app_for_group_[getType(group)] \in {\hCD46, \hCD47}
    THEN [sink |-> "tmc_.receiveUserGroup", has_app |-> TRUE,
          app_id |-> st.oda_app_for_group_[getType(group)]]
  ELSE IF st.oda_app_for_group_[getType(group)] = \h4BD7
    THEN [sink |-> "parseRadioTextPlus", has_app |-> TRUE, app_id |-> \h4BD7]
  ELSE IF st.oda_app_for_group_[getType(group)] = \h0093
    THEN [sink |-> "parseDAB", has_app |-> TRUE, app_id |-> \h0093]
  ELSE [sink |-> "unknown_oda", has_app |-> TRUE,
        app_id |-> st.oda_app_for_group_[getType(group)]]

\* mutant: the registered ODA is looked up after the whole fixed table
Route_FixedFirst(st, type) ==
  IF type.number = 0 THEN "decodeType0"
  ELSE IF type.number = 1 THEN "decodeType1"
  ELSE IF type.number = 2 THEN "decodeType2"
  ELSE IF type.number = 3 /\ type.version = "A" THEN "decodeType3A"
  ELSE IF type.number = 4 /\ type.version = "A" THEN "decodeType4A"
  ELSE IF type.number = 10 /\ type.version = "A" THEN "decodeType10A"
  ELSE IF type.number = 14 THEN "decodeType14"
  ELSE IF type.number = 15 /\ type.version = "B" THEN "decodeType15B"
  ELSE IF type.number = 5 THEN "decodeType5"
  ELSE IF type.number = 6 THEN "decodeType6"
  ELSE IF type.number = 7 /\ type.version = "A" THEN "decodeType7A"
  ELSE IF type.number = 8 /\ type.version = "A" THEN "tmc_.receiveUserGroup"
  ELSE IF type.number = 9 /\ type.version = "A" THEN "decodeType9A"
  ELSE "decodeODAGroup"

\* mutant: the ODA lookup comes before the types that cannot be used for ODA
Route_OdaFirst(st, type) ==
  IF type \in DOMAIN st.oda_app_for_group_ THEN "decodeODAGroup"
  ELSE Route_FixedFirst(st, type)

\* the if-chain of updateAndPrint: the handler of a group of this type
Route(st, type) ==
  IF type.number = 0 THEN "decodeType0"
  ELSE IF type.number = 1 THEN "decodeType1"
  ELSE IF type.number = 2 THEN "decodeType2"
  ELSE IF type.number = 3 /\ type.version = "A" THEN "decodeType3A"
  ELSE IF type.number = 4 /\ type.version = "A" THEN "decodeType4A"
  ELSE IF type.number = 10 /\ type.version = "A" THEN "decodeType10A"
  ELSE IF type.number = 14 THEN "decodeType14"
  ELSE IF type.number = 15 /\ type.version = "B" THEN "decodeType15B"
  ELSE IF type \in DOMAIN st.oda_app_for_group_ THEN "decodeODAGroup"
  ELSE IF type.number = 5 THEN "decodeType5"
  ELSE IF type.number = 6 THEN "decodeType6"
  ELSE IF type.number = 7 /\ type.version = "A" THEN "decodeType7A"
  ELSE IF type.number = 8 /\ type.version = "A" THEN "tmc_.receiveUserGroup"
  ELSE IF type.number = 9 /\ type.version = "A" THEN "decodeType9A"
  ELSE "decodeODAGroup"

\* the handler called, with its effect on the Station
Handle(st, group, route) ==
  [calls |-> <<route>>,
   station |-> IF route = "decodeType3A" THEN decodeType3A(st, group) ELSE st,
   oda |-> IF route = "decodeODAGroup" THEN decodeODAGroup(st, group) ELSE NoOda]

\* mutant: the handler is chosen whether or not the group has its type
Dispatch_Ungated(st, group) == Handle(st, group, Route(st, getType(group)))

Dispatch(st, group) ==
  IF hasType(group)
    THEN Handle(st, group, Route(st, getType(group)))
    ELSE [calls |-> << >>, station |-> st, oda |-> NoOda]

NoOutput ==
  [printed |-> FALSE, pi |-> 0, basics |-> NoBasics, calls |-> << >>, oda |-> NoOda]

Printed(st, group, d) ==
  [station |-> d.station,
   out |-> [printed |-> TRUE, pi |-> st.pi_, basics |-> decodeBasics(group),
            calls |-> d.calls, oda |-> d.oda]]

Processed(p, group) ==
  IF ~p.pass \/ isEmpty(group)
    THEN [station |-> p.station, out |-> NoOutput]
    ELSE Printed(p.station, group, Dispatch(p.station, group))

\* updateAndPrint(group, stream): the Station afterwards and what is written
updateAndPrint(st, group) == Processed(PIPolicy(st, group), group)

---------------------------------------------------------------------------
(* TMC, the traffic message decoder (tmc.cc).  The output is the sequence  *)
(* of the objects printed.                                                 *)

\* bits(word, starting_at, len): len bits of word from bit starting_at upwards
bits(word, starting_at, len) == (word \div 2^starting_at) % 2^len

\* a std::vector, indexed from 0
Vec(s) == [i \in 0..(Len(s) - 1) |-> s[i + 1]]

kNumParts == 5
kPsLength == 8

MessagePart_new == [is_received |-> FALSE, data |-> Vec(<< >>)]

\* RDSString ps_(8): the characters and the positions set so far
RDSString_new == [chars |-> [i \in 0..(kPsLength - 1) |-> 32], set |-> {}]

setAt(str, pos, chr) ==
  [chars |-> [str.chars EXCEPT ![pos] = chr], set |-> str.set \cup {pos}]

isComplete(str) == str.set = 0..(kPsLength - 1)

\* TMC::TMC(): current_ci_ is not in the initializer list and is read by the
\* first multi-group part; the fields set to 0 here are written before they
\* are read
TMC_new(current_ci) ==
  [is_initialized_ |-> FALSE, has_encid_ |-> FALSE, is_encrypted_ |-> FALSE,
   ltn_ |-> 0, sid_ |-> 0, encid_ |-> 0, ltnbe_ |-> 0,
   current_ci_ |-> current_ci,
   multi_group_buffer_ |-> [k \in 0..(kNumParts - 1) |-> MessagePart_new],
   ps_ |-> RDSString_new]

\* nothing changes and nothing is printed
Quiet(tmc) == [tmc |-> tmc, out |-> << >>]

\* TMC::systemGroup
systemGroup(tmc, message) ==
  IF bits(message, 14, 1) = 0
    THEN [tmc |-> [tmc EXCEPT !.is_initialized_ = TRUE,
                              !.ltn_ = bits(message, 6, 6),
                              !.is_encrypted_ = (bits(message, 6, 6) = 0)],
          out |-> <<[kind |-> "system_info",
                     is_encrypted |-> (bits(message, 6, 6) = 0),
                     location_table |-> bits(message, 6, 6),
                     is_on_alt_freqs |-> (bits(message, 5, 1) = 1),
                     scope |-> bits(message, 0, 4)]>>]
    ELSE Quiet(tmc)

\* getFreeformFields, lines 38-50: the parts whose bits are concatenated
RECURSIVE FreeformParts(_, _, _)
FreeformParts(parts, i, second_gsi) ==
  IF i >= kNumParts THEN << >>
  ELSE IF ~parts[i].is_received THEN << >>
  ELSE (IF i <= 1 \/ i >= kNumParts - second_gsi THEN <<i>> ELSE << >>)
         \o FreeformParts(parts, i + 1, second_gsi)

\* the 12 + 16 bits each of these parts contributes
FreeformData(parts, used) ==
  [n \in 1..Len(used) |->
     [label_bits |-> parts[used[n]].data[0] % 2^12, bits16 |-> parts[used[n]].data[1]]]

IncompleteMessage(is_multi, is_loc_encrypted) ==
  [kind |-> "tmc_message", is_multi |-> is_multi, is_encrypted |-> is_loc_encrypted,
   is_complete |-> FALSE, duration |-> 0, divertadv |-> 0, direction |-> 0,
   extent |-> 0, events |-> << >>, location |-> 0, used |-> << >>, freeform |-> << >>]

\* Message::Message and Message::print: what is printed of the message
Message(is_multi, is_loc_encrypted, parts) ==
  IF ~is_multi
    THEN [IncompleteMessage(is_multi, is_loc_encrypted) EXCEPT
            !.is_complete = TRUE,
            !.duration = bits(parts[0].data[0], 0, 3),
            !.divertadv = bits(parts[0].data[1], 15, 1),
            !.direction = bits(parts[0].data[1], 14, 1),
            !.extent = bits(parts[0].data[1], 11, 3),
            !.events = <<bits(parts[0].data[1], 0, 11)>>,
            !.location = parts[0].data[2],
            !.used = <<0>>]
  ELSE IF ~parts[0].is_received
    THEN IncompleteMessage(is_multi, is_loc_encrypted)
  ELSE [IncompleteMessage(is_multi, is_loc_encrypted) EXCEPT
          !.is_complete = TRUE,
          !.direction = bits(parts[0].data[0], 14, 1),
          !.extent = bits(parts[0].data[0], 11, 3),
          !.events = <<bits(parts[0].data[0], 0, 11)>>,
          !.location = parts[0].data[1],
          !.used = IF parts[1].is_received
                     THEN FreeformParts(parts, 0, bits(parts[1].data[0], 12, 2))
                     ELSE <<0>>,
          !.freeform = IF parts[1].is_received
                         THEN FreeformData(parts,
                                FreeformParts(parts, 0, bits(parts[1].data[0], 12, 2)))
                         ELSE << >>]

\* lines 297-306: the encryption administration group
EncryptionAdmin(tmc, y, z) ==
  [tmc |-> [tmc EXCEPT !.sid_ = bits(y, 5, 6), !.encid_ = bits(y, 0, 5),
                       !.ltnbe_ = bits(z, 10, 6), !.has_encid_ = TRUE],
   out |-> <<[kind |-> "encryption", service_id |-> bits(y, 5, 6),
              encryption_id |-> bits(y, 0, 5), location_table |-> bits(z, 10, 6)]>>]

SetProviderName(str, pos, y, z) ==
  setAt(setAt(setAt(setAt(str, pos, bits(y, 8, 8)), pos + 1, bits(y, 0, 8)),
              pos + 2, bits(z, 8, 8)), pos + 3, bits(z, 0, 8))

ProviderName(tmc) ==
  [tmc |-> tmc,
   out |-> IF isComplete(tmc.ps_)
             THEN <<[kind |-> "service_provider", chars |-> tmc.ps_.chars]>>
             ELSE << >>]

\* lines 307-326: tuning information
TuningInfo(tmc, x, y, z) ==
  IF bits(x, 0, 4) \in {4, 5}
    THEN ProviderName([tmc EXCEPT !.ps_ =
                         SetProviderName(@, 4 * (bits(x, 0, 4) - 4), y, z)])
    ELSE [tmc |-> tmc, out |-> <<[kind |-> "todo", variant |-> bits(x, 0, 4)]>>]

\* lines 336-340: a single-group message
SingleGroup(tmc, x, y, z) ==
  [tmc |-> [tmc EXCEPT !.current_ci_ = 0],
   out |-> <<Message(FALSE, tmc.is_encrypted_,
                     Vec(<<[is_received |-> TRUE, data |-> Vec(<<x, y, z>>)]>>))>>]

\* lines 356-363: the slot of a part of a multi-group message
cur_grp(y) ==
  IF bits(y, 15, 1) = 1 THEN 0
  ELSE IF bits(y, 14, 1) = 1 THEN 1
  ELSE 4 - bits(y, 12, 2)

\* mutant: the parts buffered stay received when the continuity index changes
NewContinuity_KeepsParts(tmc, ci) ==
  IF ci # tmc.current_ci_
    THEN [tmc |-> [tmc EXCEPT !.current_ci_ = ci],
          out |-> <<Message(TRUE, tmc.is_encrypted_, tmc.multi_group_buffer_)>>]
    ELSE Quiet(tmc)

\* lines 348-354: a part with another continuity index
NewContinuity(tmc, ci) ==
  IF ci # tmc.current_ci_
    THEN [tmc |-> [tmc EXCEPT
                     !.multi_group_buffer_ =
                        [k \in 0..(kNumParts - 1) |-> [@[k] EXCEPT !.is_received = FALSE]],
                     !.current_ci_ = ci],
          out |-> <<Message(TRUE, tmc.is_encrypted_, tmc.multi_group_buffer_)>>]
    ELSE Quiet(tmc)

\* line 365: multi_group_buffer_.at(cur_grp) = {true, {y, z}}
StorePart(r, y, z) ==
  [r EXCEPT !.tmc.multi_group_buffer_[cur_grp(y)] =
              [is_received |-> TRUE, data |-> Vec(<<y, z>>)]]

\* mutant: user messages of an encrypted service are decoded without the
\* encryption id
UserMessage_IgnoresEncryption(tmc, x, y, z) ==
  IF bits(x, 3, 1) = 1 THEN SingleGroup(tmc, x, y, z)
  ELSE StorePart(NewContinuity(tmc, bits(x, 0, 3)), y, z)

\* lines 328-367: a user message
UserMessage(tmc, x, y, z) ==
  IF tmc.is_encrypted_ /\ ~tmc.has_encid_ THEN Quiet(tmc)
  ELSE IF bits(x, 3, 1) = 1 THEN SingleGroup(tmc, x, y, z)
  ELSE StorePart(NewContinuity(tmc, bits(x, 0, 3)), y, z)

\* TMC::userGroup
userGroup(tmc, x, y, z) ==
  IF ~tmc.is_initialized_ THEN Quiet(tmc)
  ELSE IF bits(x, 0, 5) = 0 THEN EncryptionAdmin(tmc, y, z)
  ELSE IF bits(x, 4, 1) = 1 THEN TuningInfo(tmc, x, y, z)
  ELSE UserMessage(tmc, x, y, z)

---------------------------------------------------------------------------
(* SyncPulseBuffer (block_sync.cc)                                         *)

SyncPulse_new == [offset |-> "invalid", bitcount |-> -1]

SyncPulseBuffer_new == [i \in 0..(kNumPulses - 1) |-> SyncPulse_new]

SyncPulseBuffer_push(pulses_, offset, bitcount) ==
  [i \in 0..(kNumPulses - 1) |->
     IF i < kNumPulses - 1 THEN pulses_[i + 1]
     ELSE [offset |-> offset, bitcount |-> bitcount]]

\* mutant: only the directly preceding block may anchor the sequence
PulseMatches_Adjacent(pulses_, prev_i) ==
  LET sync_distance == pulses_[kNumPulses - 1].bitcount - pulses_[prev_i].bitcount
  IN  /\ CMod(sync_distance, kBlockLength) = 0
      /\ CDiv(sync_distance, kBlockLength) <= 1
      /\ pulses_[prev_i].offset # "invalid"
      /\ CMod(getBlockNumberForOffset(pulses_[prev_i].offset)
                + CDiv(sync_distance, kBlockLength), 4)
           = getBlockNumberForOffset(pulses_[kNumPulses - 1].offset)

\* the test of one older pulse in isSequenceFound
PulseMatches(pulses_, prev_i) ==
  LET sync_distance == pulses_[kNumPulses - 1].bitcount - pulses_[prev_i].bitcount
  IN  /\ CMod(sync_distance, kBlockLength) = 0
      /\ CDiv(sync_distance, kBlockLength) <= kMaxSyncBlocks
      /\ pulses_[prev_i].offset # "invalid"
      /\ CMod(getBlockNumberForOffset(pulses_[prev_i].offset)
                + CDiv(sync_distance, kBlockLength), 4)
           = getBlockNumberForOffset(pulses_[kNumPulses - 1].offset)

\* mutant: the loop also compares the latest pulse with itself
isSequenceFound_Inclusive(pulses_) ==
  \E prev_i \in 0..(kNumPulses - 1) : PulseMatches(pulses_, prev_i)

isSequenceFound(pulses_) ==
  \E prev_i \in 0..(kNumPulses - 2) : PulseMatches(pulses_, prev_i)

---------------------------------------------------------------------------
(* BlockStream (block_sync.h, block_sync.cc).  The handlers that touch the *)
(* static sync buffer take and return the pair [bs, buf].                  *)

BlockStream_new ==
  [bitcount_ |-> 0,
   num_bits_until_next_block_ |-> 1,
   input_register_ |-> Uint32(0),
   expected_offset_ |-> "A",
   is_in_sync_ |-> FALSE,
   block_error_sum50_ |-> RunningSum_new,
   current_group_ |-> Group_new,
   ready_group_ |-> Group_new,
   has_group_ready_ |-> FALSE,
   num_bits_since_sync_lost_ |-> 0]

\* mutant: sync is dropped when the sum reaches the threshold
handleUncorrectableError_AtThreshold(bs) ==
  IF bs.is_in_sync_ /\ getSum(bs.block_error_sum50_) >= kSyncLossThreshold
    THEN [bs EXCEPT !.is_in_sync_ = FALSE,
                    !.block_error_sum50_ = RunningSum_clear(bs.block_error_sum50_)]
    ELSE bs

\* mutant: sync is dropped and the window is kept
handleUncorrectableError_KeepsWindow(bs) ==
  IF bs.is_in_sync_ /\ getSum(bs.block_error_sum50_) > kSyncLossThreshold
    THEN [bs EXCEPT !.is_in_sync_ = FALSE]
    ELSE bs

\* mutant: dropping sync also withdraws the ready group
handleUncorrectableError_DropsReady(bs) ==
  IF bs.is_in_sync_ /\ getSum(bs.block_error_sum50_) > kSyncLossThreshold
    THEN [bs EXCEPT !.is_in_sync_ = FALSE,
                    !.has_group_ready_ = FALSE,
                    !.block_error_sum50_ = RunningSum_clear(bs.block_error_sum50_)]
    ELSE bs

handleUncorrectableError(bs) ==
  IF bs.is_in_sync_ /\ getSum(bs.block_error_sum50_) > kSyncLossThreshold
    THEN [bs EXCEPT !.is_in_sync_ = FALSE,
                    !.block_error_sum50_ = RunningSum_clear(bs.block_error_sum50_)]
    ELSE bs

\* mutant: sync is declared without expected_offset_ being set
SequenceTest_KeepsExpected(bs, pushed, block) ==
  IF isSequenceFound(pushed)
    THEN [bs |-> [bs EXCEPT !.is_in_sync_ = TRUE,
                            !.current_group_ = Group_new,
                            !.num_bits_since_sync_lost_ = 0],
          buf |-> pushed]
    ELSE [bs |-> bs, buf |-> pushed]

\* acquireSync, lines 217-222: pushed is the sync buffer after the push
SequenceTest(bs, pushed, block) ==
  IF isSequenceFound(pushed)
    THEN [bs |-> [bs EXCEPT !.is_in_sync_ = TRUE,
                            !.expected_offset_ = block.offset,
                            !.current_group_ = Group_new,
                            !.num_bits_since_sync_lost_ = 0],
          buf |-> pushed]
    ELSE [bs |-> bs, buf |-> pushed]

\* acquireSync, lines 211-223: bs already counts this bit
FindSequence(bs, buf, block) ==
  IF block.offset # "invalid"
    THEN SequenceTest(bs, SyncPulseBuffer_push(buf, block.offset, bs.bitcount_), block)
    ELSE [bs |-> bs, buf |-> buf]

\* mutant: the group being assembled survives the acquisition
acquireSync_KeepsGroup(bs, buf, block) ==
  IF bs.is_in_sync_ THEN [bs |-> bs, buf |-> buf]
  ELSE [FindSequence([bs EXCEPT !.num_bits_since_sync_lost_ = @ + 1], buf, block)
          EXCEPT !.bs.current_group_ = bs.current_group_]

\* mutant: only the windows that read as an offset word are counted
acquireSync_CountsOffsets(bs, buf, block) ==
  IF bs.is_in_sync_ THEN [bs |-> bs, buf |-> buf]
  ELSE IF block.offset = "invalid" THEN [bs |-> bs, buf |-> buf]
  ELSE FindSequence([bs EXCEPT !.num_bits_since_sync_lost_ = @ + 1], buf, block)

acquireSync(bs, buf, block) ==
  IF bs.is_in_sync_ THEN [bs |-> bs, buf |-> buf]
  ELSE FindSequence([bs EXCEPT !.num_bits_since_sync_lost_ = @ + 1], buf, block)

handleNewlyReceivedGroup(bs) ==
  [bs EXCEPT !.ready_group_ = bs.current_group_,
             !.has_group_ready_ = TRUE,
             !.current_group_ = Group_new]

(* The block decision of findBlockInInputRegister once is_in_sync_ holds    *)
(* (lines 245-274), statement by statement.  Each step takes and returns    *)
(* the pair d = [bs, block] of the object and the local variable block.     *)

\* lines 246-247: the C/C' switch
\* mutant: the expected offset is never switched to C'
SwitchToCprime_Never(d) == d

SwitchToCprime(d) ==
  IF d.bs.expected_offset_ = "C" /\ d.block.offset = "Cprime"
    THEN [d EXCEPT !.bs.expected_offset_ = "Cprime"] ELSE d

\* mutant: a block with errors is counted twice in the window
FlagErrors_CountsTwice(d) ==
  [bs |-> [d.bs EXCEPT !.block_error_sum50_ =
             IF d.block.offset # d.bs.expected_offset_
               THEN RunningSum_push(RunningSum_push(@, 1), 1)
               ELSE RunningSum_push(@, 0)],
   block |-> [d.block EXCEPT
                !.had_errors = (d.block.offset # d.bs.expected_offset_),
                !.data = (d.block.raw \div 2^kCheckwordLength) % kUint16]]

\* lines 249-252: had_errors, the push into the 50-block window, data
FlagErrors(d) ==
  [bs |-> [d.bs EXCEPT !.block_error_sum50_ =
             RunningSum_push(@, IF d.block.offset # d.bs.expected_offset_ THEN 1 ELSE 0)],
   block |-> [d.block EXCEPT
                !.had_errors = (d.block.offset # d.bs.expected_offset_),
                !.data = (d.block.raw \div 2^kCheckwordLength) % kUint16]]

\* mutant: the corrected block is not tagged with the expected offset
ApplyCorrection_Untagged(d, correction) ==
  IF correction.succeeded
    THEN [d EXCEPT !.block.data =
                      (correction.corrected_bits \div 2^kCheckwordLength) % kUint16]
    ELSE [d EXCEPT !.bs = handleUncorrectableError(d.bs)]

\* lines 256-261: what is done with the result of correctBurstErrors
ApplyCorrection(d, correction) ==
  IF correction.succeeded
    THEN [d EXCEPT !.block.data =
                      (correction.corrected_bits \div 2^kCheckwordLength) % kUint16,
                   !.block.offset = d.bs.expected_offset_]
    ELSE [d EXCEPT !.bs = handleUncorrectableError(d.bs)]

\* lines 254-262
CorrectErrors(d) ==
  IF d.block.had_errors
    THEN ApplyCorrection(d, correctBurstErrors(d.block.raw, d.bs.expected_offset_))
    ELSE d

\* mutant: the block is stored whatever its offset
StoreBlock_Unchecked(d) ==
  [d EXCEPT !.block.is_received = TRUE,
            !.bs.current_group_ =
               setBlock(@, getBlockNumberForOffset(d.bs.expected_offset_),
                        [d.block EXCEPT !.is_received = TRUE])]

\* lines 265-268
StoreBlock(d) ==
  IF d.block.offset = d.bs.expected_offset_
    THEN [d EXCEPT !.block.is_received = TRUE,
                   !.bs.current_group_ =
                      setBlock(@, getBlockNumberForOffset(d.bs.expected_offset_),
                               [d.block EXCEPT !.is_received = TRUE])]
    ELSE d

\* mutant: the completed group is handed over but the assembling group is kept
CompleteGroup_KeepsCurrent(bs) ==
  IF bs.expected_offset_ = "A"
    THEN [bs EXCEPT !.ready_group_ = bs.current_group_, !.has_group_ready_ = TRUE]
    ELSE bs

\* lines 272-273
CompleteGroup(bs) ==
  IF bs.expected_offset_ = "A" THEN handleNewlyReceivedGroup(bs) ELSE bs

\* mutant: the expected offset is not advanced
AdvanceOffset_Stuck(bs) == CompleteGroup(bs)

\* lines 270-273
AdvanceOffset(bs) ==
  CompleteGroup([bs EXCEPT !.expected_offset_ = getNextOffsetFor(@)])

DecideBlock(bs, block) ==
  AdvanceOffset(
    StoreBlock(CorrectErrors(FlagErrors(SwitchToCprime([bs |-> bs, block |-> block])))).bs)

\* the candidate block read from the input register (lines 239-241)
CandidateBlock(bs) ==
  [Block_new EXCEPT
     !.raw = bs.input_register_.lo,
     !.offset = getOffsetForSyndrome(calculateSyndrome(bs.input_register_.lo) % kUint16)]

\* lines 245-274: a is the result of acquireSync
DecideIfInSync(a, block) ==
  IF a.bs.is_in_sync_
    THEN [bs |-> DecideBlock(a.bs, block), buf |-> a.buf]
    ELSE a

\* mutant: the block that brings sync is used for the acquisition only
FindBlock_SkipsAcquiringBlock(bs, buf, block) ==
  IF bs.is_in_sync_
    THEN DecideIfInSync(acquireSync(bs, buf, block), block)
    ELSE acquireSync(bs, buf, block)

\* lines 243-274
FindBlock(bs, buf, block) == DecideIfInSync(acquireSync(bs, buf, block), block)

findBlockInInputRegister(bs, buf) == FindBlock(bs, buf, CandidateBlock(bs))

\* mutant: the countdown restarts at the block length in either state
RestartCountdown_AlwaysBlock(f) ==
  [bs |-> [f.bs EXCEPT !.num_bits_until_next_block_ = kBlockLength],
   buf |-> f.buf]

\* line 234: f is the result of findBlockInInputRegister
RestartCountdown(f) ==
  [bs |-> [f.bs EXCEPT !.num_bits_until_next_block_ =
                          IF f.bs.is_in_sync_ THEN kBlockLength ELSE 1],
   buf |-> f.buf]

\* lines 231-235: bs already holds the shifted register and the counters
CheckCountdown(bs, buf) ==
  IF bs.num_bits_until_next_block_ = 0
    THEN RestartCountdown(findBlockInInputRegister(bs, buf))
    ELSE [bs |-> bs, buf |-> buf]

pushBit(bs, buf, bit) ==
  CheckCountdown([bs EXCEPT !.input_register_ = ShiftIn(@, bit),
                            !.num_bits_until_next_block_ = @ - 1,
                            !.bitcount_ = @ + 1],
                 buf)

hasGroupReady(bs) == bs.has_group_ready_

\* mutant: the flag survives the call
popGroup_KeepsFlag(bs) == bs

\* popGroup: the object after the call; the call returns bs.ready_group_
popGroup(bs) == [bs EXCEPT !.has_group_ready_ = FALSE]

flushCurrentGroup(bs) == bs.current_group_

getNumBitsSinceSyncLost(bs) == bs.num_bits_since_sync_lost_

---------------------------------------------------------------------------
(* The bit source.  The transmitter sends 26-bit blocks, most significant   *)
(* bit first: 16 data bits, then the 10-bit checkword of the RDS cyclic     *)
(* code with the block's offset word added (generator polynomial            *)
(* x^10 + x^8 + x^7 + x^5 + x^4 + x^3 + 1).  A profile fixes the whole       *)
(* stream: where in the group cycle it starts, the data, and which blocks    *)
(* the channel corrupts with which error vector.                            *)

kGenerator == \b10110111001

\* remainder of r modulo the generator polynomial, reducing bits i down to 10
RECURSIVE PolyMod(_, _)
PolyMod(r, i) ==
  IF i < kCheckwordLength THEN r
  ELSE PolyMod(IF BitOf(r, i) = 1
                 THEN Xor(r, kGenerator * 2^(i - kCheckwordLength)) ELSE r,
               i - 1)

Checkword(data) == PolyMod(data * 2^kCheckwordLength, kBlockLength - 1)

Encode(data, offset) ==
  Xor(data * 2^kCheckwordLength + Checkword(data), offset_words[offset])

\* bounds of the inputs
MaxBlocks == 5          \* length of a short stream, in blocks
MaxCleanBlocks == 10    \* length of an error-free stream, in blocks
MaxLongBlocks == 54     \* length of a long stream, in blocks
MaxTwoBlocks == 4       \* length of the stream fed to two channels, in blocks
NumDataPatterns == 2
FirstOverride == 45     \* first and last block index the channel can single out
LastOverride == 52
S3BadBlocks == 50       \* length of the run of corrupted blocks of scenario S3
MaxResyncBlocks == 4    \* length of the intact stream that follows it, in blocks
MaxSetBlocks == 3       \* number of setBlock calls made on one Group

\* the data of the four slots: 0A basic tuning, and a 15B group (PI in block 3)
DataPattern(n) ==
  IF n = 1 THEN << \hE242, \h0000, \hE0CD, \h2020 >>
           ELSE << \hE242, \hF800, \hE242, \hF800 >>

\* data that make the window ending at bit 16 read as offset A and the window
\* ending at bit 42 read as offset B, although no block ends there
AdversarialData == << \h00FC, \h0089 >>

SlotOffset(p, slot) ==
  CASE slot = 0 -> "A"
    [] slot = 1 -> "B"
    [] slot = 2 -> IF p.cprime THEN "Cprime" ELSE "C"
    [] slot = 3 -> "D"

OffsetAt(p, k) == SlotOffset(p, (p.start + k) % 4)

DataAt(p, k) ==
  IF p.adversarial /\ k < Len(AdversarialData) THEN AdversarialData[k + 1]
  ELSE DataPattern(p.data)[((p.start + k) % 4) + 1]

\* error vectors: one flipped bit at position pos of the block (0 = first bit
\* sent), two adjacent flipped bits, and two flipped bits one apart
SingleBit(pos) == 2^(kBlockLength - 1 - pos)
DoubleBit(pos) == 3 * 2^(kBlockLength - 2 - pos)
SplitBits == \b101

\* what the channel adds to block k: blocks 0 and 1 always arrive intact
ErrorAt(p, k) ==
  IF k = p.eblock THEN p.evec
  ELSE IF /\ p.base = "bad" /\ k >= 2
          /\ (p.lastbad < 0 \/ k <= p.lastbad)
          /\ ~(p.period > 0 /\ (k - 1) % p.period = 0)
    THEN SplitBits
  ELSE 0

\* the data words the profiles use, and their blocks as the transmitter sends them
DataWords ==
  {DataPattern(n)[i] : n \in 1..NumDataPatterns, i \in 1..4}
    \cup {AdversarialData[i] : i \in 1..Len(AdversarialData)}

TransmittedBlock == [d \in DataWords, o \in RealOffsets |-> Encode(d, o)]

Word(p, k) == Xor(TransmittedBlock[DataAt(p, k), OffsetAt(p, k)], ErrorAt(p, k))

\* the n-th bit of the stream, n counted from 0
BitAt(p, n) == BitOf(Word(p, n \div kBlockLength), kBlockLength - 1 - (n % kBlockLength))

StreamBits(p) == p.nblocks * kBlockLength

NoProfile ==
  [start |-> 0, cprime |-> FALSE, data |-> 1, adversarial |-> FALSE,
   base |-> "clean", period |-> 0, lastbad |-> -1, eblock |-> -1, evec |-> 0,
   nblocks |-> MaxBlocks]

\* error-free streams from every point of the group cycle
CleanProfiles ==
  {[NoProfile EXCEPT !.start = s, !.cprime = c, !.data = d] :
     s \in 0..3, c \in BOOLEAN, d \in 1..NumDataPatterns}

\* the stream A, B, C, D of the 0A group with one block hit by a one- or two-bit burst
FlipProfiles ==
  {[NoProfile EXCEPT !.eblock = b, !.evec = e] :
     b \in 0..3,
     e \in {SingleBit(pos) : pos \in 0..(kBlockLength - 1)}
           \cup {DoubleBit(pos) : pos \in 0..(kBlockLength - 2)}}

ScenarioS1 == NoProfile
ScenarioS2 == [NoProfile EXCEPT !.eblock = 1, !.evec = SingleBit(13)]

AdversarialProfile == [NoProfile EXCEPT !.adversarial = TRUE, !.nblocks = MaxLongBlocks]

\* after two intact blocks every block is corrupted beyond correction, except
\* every period-th one (if period > 0) and one block that is intact, has a
\* correctable one-bit error, or is corrupted like the rest
LossProfiles ==
  {[NoProfile EXCEPT !.base = "bad", !.period = per, !.eblock = b, !.evec = e,
                     !.nblocks = MaxLongBlocks] :
     per \in {0, 10}, b \in FirstOverride..LastOverride,
     e \in {0, SingleBit(13), SplitBits}}

\* scenario S3: two intact blocks, a run of blocks corrupted beyond
\* correction, then intact blocks again, from every point of the group cycle
ScenarioS3 ==
  {[NoProfile EXCEPT !.start = s, !.base = "bad", !.lastbad = 1 + S3BadBlocks,
                     !.nblocks = 2 + S3BadBlocks + MaxResyncBlocks] : s \in 0..3}

\* scenario S3 with one intact block shortly before the loss: from some
\* points of the group cycle it is in the group being assembled when sync
\* is lost
PartialGroupProfiles ==
  {[p EXCEPT !.eblock = FirstOverride + 1, !.evec = 0] : p \in ScenarioS3}

---------------------------------------------------------------------------
(* The process: Init, the operations, the specifications                   *)

Inst == DOMAIN streams

\* what a pushBit on bs did, read off the object before (pre) and after (post)
DecisionMade(pre) == pre.num_bits_until_next_block_ = 1
Acquired(pre, post) == ~pre.is_in_sync_ /\ post.is_in_sync_
Lost(pre, post) == pre.is_in_sync_ /\ ~post.is_in_sync_
GroupCompleted(pre, post) ==
  /\ DecisionMade(pre)
  /\ pre.is_in_sync_ \/ post.is_in_sync_
  /\ post.expected_offset_ = "A"

\* the window a pushBit of this bit looks at, and its offset
WindowAfter(pre, bit) == ShiftIn(pre.input_register_, bit).lo
WindowOffset(pre, bit) ==
  getOffsetForSyndrome(calculateSyndrome(WindowAfter(pre, bit)) % kUint16)

NothingTaken == [groups |-> << >>, prompt |-> TRUE]

InitWith(profiles, insts) ==
  /\ profile \in profiles
  /\ streams = [i \in insts |-> BlockStream_new]
  /\ sync_buffer = SyncPulseBuffer_new
  /\ station = NoStation
  /\ taken = NothingTaken
  /\ solo = [bs |-> BlockStream_new, buf |-> SyncPulseBuffer_new]
  /\ log = [i \in insts |-> << >>]
  /\ acq = [i \in insts |-> << >>]
  /\ seen = [i \in insts |-> [labelled |-> 0, offgrid |-> FALSE]]
  /\ last = [op |-> "init", inst |-> 0, bit |-> 0,
             pre |-> BlockStream_new, buf |-> SyncPulseBuffer_new]

\* the history kept of a pushBit that took channel i from pre to r.bs
Record(i, pre, bit, r) ==
  /\ log' = IF GroupCompleted(pre, r.bs)
              THEN [log EXCEPT ![i] =
                      Append(@, [at |-> r.bs.bitcount_, group |-> r.bs.ready_group_])]
              ELSE log
  /\ acq' = IF Acquired(pre, r.bs)
              THEN [acq EXCEPT ![i] = Append(@, [what |-> "sync", at |-> r.bs.bitcount_])]
            ELSE IF Lost(pre, r.bs)
              THEN [acq EXCEPT ![i] = Append(@, [what |-> "loss", at |-> r.bs.bitcount_])]
            ELSE acq
  /\ seen' = IF ~pre.is_in_sync_ /\ DecisionMade(pre) /\ WindowOffset(pre, bit) # "invalid"
               THEN [seen EXCEPT ![i] =
                       [labelled |-> @.labelled + 1,
                        offgrid |-> @.offgrid \/ r.bs.bitcount_ % kBlockLength # 0]]
               ELSE seen
  /\ last' = [op |-> "pushBit", inst |-> i, bit |-> bit, pre |-> pre, buf |-> sync_buffer]

\* the driver pushes the next bit of the stream into channel i; with twin set,
\* the same bit is pushed into channel 1's twin in a process of its own
PushBitStep(i, twin) ==
  /\ streams[i].bitcount_ < StreamBits(profile)
  /\ \E bit \in {BitAt(profile, streams[i].bitcount_)} :
       /\ \E r \in {pushBit(streams[i], sync_buffer, bit)} :
            /\ streams' = [streams EXCEPT ![i] = r.bs]
            /\ sync_buffer' = r.buf
            /\ Record(i, streams[i], bit, r)
       /\ solo' = IF i = 1 /\ twin
                    THEN pushBit(solo.bs, solo.buf, bit) ELSE solo
  /\ UNCHANGED <<station, profile>>

PushBitWith(i, twin) == PushBitStep(i, twin) /\ UNCHANGED taken

PushBit(i) == PushBitWith(i, Cardinality(Inst) > 1)

\* the consumer polls channel i and takes the ready group
PopGroup(i) ==
  /\ hasGroupReady(streams[i])
  /\ streams' = [streams EXCEPT ![i] = popGroup(streams[i])]
  /\ last' = [op |-> "popGroup", inst |-> i, bit |-> 0,
              pre |-> streams[i], buf |-> sync_buffer]
  /\ UNCHANGED <<taken, station, profile, sync_buffer, solo, log, acq, seen>>

Push == \E i \in Inst : PushBit(i)
Pop == \E i \in Inst : PopGroup(i)

Next == Push \/ Pop

\* a process with two channels, both fed the same short stream
TwoProfiles == {[p EXCEPT !.nblocks = MaxTwoBlocks] : p \in {ScenarioS1, ScenarioS2}}
Init == InitWith(TwoProfiles, {1, 2})
Spec == Init /\ [][Next]_vars

\* a process with one channel, fed a short stream
ShortAdversarial == [AdversarialProfile EXCEPT !.nblocks = MaxBlocks]
InitCold == InitWith(CleanProfiles \cup FlipProfiles \cup {ShortAdversarial}, {1})
SpecCold == InitCold /\ [][Next]_vars

\* a process with one channel, fed a long stream
LongCleanProfiles == {[p EXCEPT !.nblocks = MaxCleanBlocks] : p \in CleanProfiles}
InitLong ==
  InitWith(LongCleanProfiles \cup LossProfiles \cup ScenarioS3 \cup PartialGroupProfiles
             \cup {AdversarialProfile}, {1})
SpecLong == InitLong /\ [][Next]_vars

\* correctBurstErrors alone, applied to one transmitted block hit by one burst
BurstVectors ==
  {SingleBit(pos) : pos \in 0..(kBlockLength - 1)}
    \cup {DoubleBit(pos) : pos \in 0..(kBlockLength - 2)}

\* the data words of the blocks: those of the streams, all-zero, all-one, and
\* every word with a single 1
BurstData ==
  DataWords \cup {0, kUint16 - 1} \cup {2^k : k \in 0..15}

InitECC ==
  /\ profile \in [data : BurstData, offset : RealOffsets, error : BurstVectors]
  /\ streams = [i \in {1} |-> BlockStream_new]
  /\ sync_buffer = SyncPulseBuffer_new
  /\ station = NoStation
  /\ taken = NothingTaken
  /\ solo = [bs |-> BlockStream_new, buf |-> SyncPulseBuffer_new]
  /\ log = [i \in {1} |-> << >>]
  /\ acq = [i \in {1} |-> << >>]
  /\ seen = [i \in {1} |-> [labelled |-> 0, offgrid |-> FALSE]]
  /\ last = [op |-> "init"]

Correct ==
  /\ last.op = "init"
  /\ \E raw \in {Xor(Encode(profile.data, profile.offset), profile.error)} :
       last' = [op |-> "correctBurstErrors", raw |-> raw,
                result |-> correctBurstErrors(raw, profile.offset)]
  /\ UNCHANGED <<taken, station, profile, streams, sync_buffer, solo, log, acq, seen>>

SpecECC == InitECC /\ [][Correct]_vars

\* getOffsetForSyndrome and calculateSyndrome alone: applied to an intact
\* transmitted block and to the offset word of its offset, or to an arbitrary
\* syndrome value
SyndromeValues == 0..(2^kCheckwordLength - 1)

InitOffset ==
  /\ profile \in [data : BurstData, offset : RealOffsets] \cup [syndrome : SyndromeValues]
  /\ streams = [i \in {1} |-> BlockStream_new]
  /\ sync_buffer = SyncPulseBuffer_new
  /\ station = NoStation
  /\ taken = NothingTaken
  /\ solo = [bs |-> BlockStream_new, buf |-> SyncPulseBuffer_new]
  /\ log = [i \in {1} |-> << >>]
  /\ acq = [i \in {1} |-> << >>]
  /\ seen = [i \in {1} |-> [labelled |-> 0, offgrid |-> FALSE]]
  /\ last = [op |-> "init"]

RecogniseBlock ==
  /\ last.op = "init"
  /\ DOMAIN profile = {"data", "offset"}
  /\ last' = [op |-> "calculateSyndrome",
              of_block |-> getOffsetForSyndrome(
                 calculateSyndrome(Encode(profile.data, profile.offset)) % kUint16),
              word_syndrome |-> calculateSyndrome(offset_words[profile.offset])]
  /\ UNCHANGED <<taken, station, profile, streams, sync_buffer, solo, log, acq, seen>>

RecogniseValue ==
  /\ last.op = "init"
  /\ DOMAIN profile = {"syndrome"}
  /\ last' = [op |-> "getOffsetForSyndrome",
              of_value |-> getOffsetForSyndrome(profile.syndrome)]
  /\ UNCHANGED <<taken, station, profile, streams, sync_buffer, solo, log, acq, seen>>

NextOffset == RecogniseBlock \/ RecogniseValue

SpecOffset == InitOffset /\ [][NextOffset]_vars

\* the consumer calls popGroup on channel i, ready group or not
PopAnyGroup(i) ==
  /\ streams' = [streams EXCEPT ![i] = popGroup(streams[i])]
  /\ last' = [op |-> "popGroup", inst |-> i, bit |-> 0,
              pre |-> streams[i], buf |-> sync_buffer]
  /\ UNCHANGED <<taken, station, profile, sync_buffer, solo, log, acq, seen>>

\* mutant: hasGroupReady consumes the flag it reports
Poll_Consuming(i) ==
  /\ streams' = [streams EXCEPT ![i].has_group_ready_ = FALSE]
  /\ last' = [op |-> "hasGroupReady", inst |-> i, bit |-> 0,
              pre |-> streams[i], buf |-> sync_buffer,
              result |-> hasGroupReady(streams[i])]
  /\ UNCHANGED <<taken, station, profile, sync_buffer, solo, log, acq, seen>>

\* the consumer calls hasGroupReady on channel i (a const member function)
Poll(i) ==
  /\ last' = [op |-> "hasGroupReady", inst |-> i, bit |-> 0,
              pre |-> streams[i], buf |-> sync_buffer,
              result |-> hasGroupReady(streams[i])]
  /\ UNCHANGED <<taken, station, profile, streams, sync_buffer, solo, log, acq, seen>>

\* mutant: flushCurrentGroup hands the group over and starts a new one
Flush_Destructive(i) ==
  /\ streams' = [streams EXCEPT ![i].current_group_ = Group_new]
  /\ last' = [op |-> "flushCurrentGroup", inst |-> i, bit |-> 0,
              pre |-> streams[i], buf |-> sync_buffer,
              result |-> flushCurrentGroup(streams[i])]
  /\ UNCHANGED <<taken, station, profile, sync_buffer, solo, log, acq, seen>>

\* the consumer calls flushCurrentGroup on channel i (a const member function)
Flush(i) ==
  /\ last' = [op |-> "flushCurrentGroup", inst |-> i, bit |-> 0,
              pre |-> streams[i], buf |-> sync_buffer,
              result |-> flushCurrentGroup(streams[i])]
  /\ UNCHANGED <<taken, station, profile, streams, sync_buffer, solo, log, acq, seen>>

PushTwinned == \E i \in Inst : PushBitWith(i, TRUE)
PopAny == \E i \in Inst : PopAnyGroup(i)
PollReady == \E i \in Inst : Poll(i)
FlushCurrent == \E i \in Inst : Flush(i)

NextPoll == PushTwinned \/ PopAny \/ PollReady \/ FlushCurrent

\* a process with one channel whose consumer may call any member function of
\* the public interface between two bits; the twin of channel 1 is only pushed
PollProfiles == CleanProfiles \cup {ScenarioS2, ShortAdversarial}
InitPoll == InitWith(PollProfiles, {1})
SpecPoll == InitPoll /\ [][NextPoll]_vars

\* disableOffsets (groups.cc)
disableOffsets(group) == [group EXCEPT !.no_offsets_ = TRUE]

\* a Group alone, built by any sequence of setBlock calls (and disableOffsets,
\* as the pre-framed input does): the blocks handed to setBlock carry a type
\* 0A, 0B, 15B or PI (14A) word, are marked received or not, and are tagged
\* with the offset of their slot (C or C' in slot 3) or left invalid.  The
\* Group is kept in current_group_ of channel 1; last records the call, the
\* type and has_type_ of the Group before it, and whether an earlier call
\* installed a received C' block.
GroupData == {\h0000, \h0800, \hF800, \hE242}

GroupOffsets(block_num) ==
  IF block_num = BLOCK1 THEN {"A", "invalid"}
  ELSE IF block_num = BLOCK2 THEN {"B", "invalid"}
  ELSE IF block_num = BLOCK3 THEN {"C", "Cprime", "invalid"}
  ELSE {"D", "invalid"}

GroupBlocks(block_num) ==
  [raw : {0}, data : GroupData, is_received : BOOLEAN,
   had_errors : {FALSE}, offset : GroupOffsets(block_num)]

CprimeSighting(block) == block.is_received /\ block.offset = "Cprime"

InitGroup ==
  /\ profile = NoProfile
  /\ streams = [i \in {1} |-> BlockStream_new]
  /\ sync_buffer = SyncPulseBuffer_new
  /\ station = NoStation
  /\ taken = NothingTaken
  /\ solo = [bs |-> BlockStream_new, buf |-> SyncPulseBuffer_new]
  /\ log = [i \in {1} |-> << >>]
  /\ acq = [i \in {1} |-> << >>]
  /\ seen = [i \in {1} |-> [labelled |-> 0, offgrid |-> FALSE]]
  /\ last = [op |-> "Group", count |-> 0, block_num |-> BLOCK1,
             block |-> Block_new, pre_type |-> getType(Group_new),
             pre_has_type |-> hasType(Group_new), cprime_seen |-> FALSE,
             cprime_now |-> FALSE]

SetBlock ==
  /\ last.count < MaxSetBlocks
  /\ \E block_num \in BLOCK1..BLOCK4 :
       \E block \in GroupBlocks(block_num) :
         /\ streams' = [streams EXCEPT
                          ![1].current_group_ = setBlock(@, block_num, block)]
         /\ last' = [op |-> "setBlock", count |-> last.count + 1,
                     block_num |-> block_num, block |-> block,
                     pre_type |-> getType(streams[1].current_group_),
                     pre_has_type |-> hasType(streams[1].current_group_),
                     cprime_seen |-> (last.cprime_seen \/ last.cprime_now),
                     cprime_now |-> CprimeSighting(block)]
  /\ UNCHANGED <<taken, station, profile, sync_buffer, solo, log, acq, seen>>

DisableOffsets ==
  /\ last.op = "Group"
  /\ streams' = [streams EXCEPT ![1].current_group_ = disableOffsets(@)]
  /\ last' = [last EXCEPT !.op = "disableOffsets"]
  /\ UNCHANGED <<taken, station, profile, sync_buffer, solo, log, acq, seen>>

NextGroup == SetBlock \/ DisableOffsets

SpecGroup == InitGroup /\ [][NextGroup]_vars

\* a process with one channel whose consumer polls hasGroupReady after a bit
\* and takes the group if there is one, or pushes on without polling; taken
\* keeps the groups it took, each with the number of groups completed so far
MaxDrainBlocks == 14    \* blocks of the streams fed to the polling consumer

DrainProfiles ==
  {[p EXCEPT !.nblocks = MaxDrainBlocks] : p \in CleanProfiles \cup FlipProfiles}

InitDrain == InitWith(DrainProfiles, {1})

Feed(i) ==
  /\ PushBitStep(i, FALSE)
  /\ taken' = [taken EXCEPT !.prompt = @ /\ ~hasGroupReady(streams[i])]

Take(i) ==
  /\ hasGroupReady(streams[i])
  /\ streams' = [streams EXCEPT ![i] = popGroup(streams[i])]
  /\ taken' = [taken EXCEPT !.groups =
                  Append(@, [group |-> streams[i].ready_group_,
                             index |-> Len(log[i])])]
  /\ last' = [op |-> "popGroup", inst |-> i, bit |-> 0,
              pre |-> streams[i], buf |-> sync_buffer]
  /\ UNCHANGED <<station, profile, sync_buffer, solo, log, acq, seen>>

FeedBit == \E i \in Inst : Feed(i)
TakeGroup == \E i \in Inst : Take(i)
NextDrain == FeedBit \/ TakeGroup

SpecDrain == InitDrain /\ [][NextDrain]_vars

\* a Group whose slots hold any of a few words, received or not, is printed
HexWords == {\h0000, \h000A, \h00F0, \h0ABC, \h2020, \hE242, \hFFFF}

HexBlocks ==
  [raw : {0}, data : HexWords, is_received : {TRUE}, had_errors : {FALSE},
   offset : {"invalid"}]
  \cup [raw : {0}, data : {\h0000, \hE242}, is_received : {FALSE},
         had_errors : {FALSE}, offset : {"invalid"}]

InitHex ==
  /\ profile = NoProfile
  /\ streams \in {[i \in {1} |-> [BlockStream_new EXCEPT
                     !.current_group_ = [Group_new EXCEPT !.blocks_ = blocks]]] :
                    blocks \in [BLOCK1..BLOCK4 -> HexBlocks]}
  /\ sync_buffer = SyncPulseBuffer_new
  /\ station = NoStation
  /\ taken = NothingTaken
  /\ solo = [bs |-> BlockStream_new, buf |-> SyncPulseBuffer_new]
  /\ log = [i \in {1} |-> << >>]
  /\ acq = [i \in {1} |-> << >>]
  /\ seen = [i \in {1} |-> [labelled |-> 0, offgrid |-> FALSE]]
  /\ last = [op |-> "Group", result |-> ""]

PrintHex ==
  /\ last.op = "Group"
  /\ last' = [op |-> "printHex", result |-> printHex(streams[1].current_group_)]
  /\ UNCHANGED <<taken, station, profile, streams, sync_buffer, solo, log, acq, seen>>

NextHex == PrintHex

SpecHex == InitHex /\ [][NextHex]_vars

\* the error window on its own: pushes of 0 and 1 (a 1 at every period-th
\* push) with clears in between, at any times
MaxSumPushes == 64      \* pushes in one run
MaxSumClears == 2       \* clears in one run
SumPeriods == {1, 3, 7}

PushedValue(period, n) == IF n % period = 0 THEN 1 ELSE 0

InitSum ==
  /\ profile = NoProfile
  /\ streams = [i \in {1} |-> BlockStream_new]
  /\ sync_buffer = SyncPulseBuffer_new
  /\ station = NoStation
  /\ taken = NothingTaken
  /\ solo = [bs |-> BlockStream_new, buf |-> SyncPulseBuffer_new]
  /\ log = [i \in {1} |-> << >>]
  /\ acq = [i \in {1} |-> << >>]
  /\ seen = [i \in {1} |-> [labelled |-> 0, offgrid |-> FALSE]]
  /\ \E period \in SumPeriods :
       last = [op |-> "RunningSum", period |-> period, count |-> 0, clears |-> 0,
               pushed |-> << >>]

SumPush ==
  /\ last.count < MaxSumPushes
  /\ \E number \in {PushedValue(last.period, last.count)} :
       /\ streams' = [streams EXCEPT ![1].block_error_sum50_ =
                        RunningSum_push(@, number)]
       /\ last' = [last EXCEPT !.op = "push", !.count = @ + 1,
                               !.pushed = Append(@, number)]
  /\ UNCHANGED <<taken, station, profile, sync_buffer, solo, log, acq, seen>>

SumClear ==
  /\ last.clears < MaxSumClears
  /\ streams' = [streams EXCEPT ![1].block_error_sum50_ = RunningSum_clear(@)]
  /\ last' = [last EXCEPT !.op = "clear", !.clears = @ + 1, !.pushed = << >>]
  /\ UNCHANGED <<taken, station, profile, sync_buffer, solo, log, acq, seen>>

NextSum == SumPush \/ SumClear

SpecSum == InitSum /\ [][NextSum]_vars

\* the TMC decoder of a Station on its own: system groups (3A, variant bits in
\* the message) and user groups (8A) in any order
MaxTmcGroups == 5       \* groups handed to the TMC decoder

\* system messages: location table 0 (encrypted), location table 1, and one
\* with bit 14 set
TmcSystemWords == {\h0000, \h0048, \h4000}

\* x: encryption administration, tuning variants 4, 5 and 1, a single-group
\* message, parts of multi-group messages with continuity indices 1 and 2
TmcAdminX == {\h00}
TmcTuningX == {\h14, \h15, \h11}
TmcMessageX == {\h09, \h01, \h02}

\* y of a message: a first group, second groups, and later groups with
\* group sequence indicators 2, 1, 0 and 3
TmcMessageY == {\h8123, \h6001, \h2002, \h1003, \h0004, \h3005}

TmcUserWords ==
  {<<x, \h4142, \h4344>> : x \in TmcAdminX \cup TmcTuningX}
    \cup {<<x, y, \h1234>> : x \in TmcMessageX, y \in TmcMessageY}

\* the values current_ci_ may hold after construction
TmcInitialCi == {0, 1, 8}

NoContinuity == 0 - 1

\* x is that of a part of a multi-group message, and the decoder takes it
IsPart(x) == bits(x, 0, 5) # 0 /\ bits(x, 4, 1) = 0 /\ bits(x, 3, 1) = 0

PartTaken(tmc, x) ==
  /\ IsPart(x)
  /\ tmc.is_initialized_
  /\ ~(tmc.is_encrypted_ /\ ~tmc.has_encid_)

\* history: the continuity index of the part held by each received slot
SlotCiAfter(slot_ci, pre, post, x, y) ==
  [k \in 0..(kNumParts - 1) |->
     IF ~post.multi_group_buffer_[k].is_received THEN NoContinuity
     ELSE IF PartTaken(pre, x) /\ k = cur_grp(y) THEN bits(x, 0, 3)
     ELSE slot_ci[k]]

InitTmc ==
  /\ profile = NoProfile
  /\ streams = [i \in {1} |-> BlockStream_new]
  /\ sync_buffer = SyncPulseBuffer_new
  /\ solo = [bs |-> BlockStream_new, buf |-> SyncPulseBuffer_new]
  /\ log = [i \in {1} |-> << >>]
  /\ acq = [i \in {1} |-> << >>]
  /\ seen = [i \in {1} |-> [labelled |-> 0, offgrid |-> FALSE]]
  /\ taken = NothingTaken
  /\ \E ci \in TmcInitialCi : station = [tmc_ |-> TMC_new(ci)]
  /\ last = [op |-> "TMC", count |-> 0, x |-> 0, y |-> 0, z |-> 0,
             pre |-> station.tmc_, out |-> << >>,
             system_seen |-> FALSE, encrypted |-> FALSE, encid_seen |-> FALSE,
             slot_ci |-> [k \in 0..(kNumParts - 1) |-> NoContinuity],
             pre_slot_ci |-> [k \in 0..(kNumParts - 1) |-> NoContinuity]]

\* a 3A group of the TMC application hands its message to the decoder
SystemGroup ==
  /\ last.count < MaxTmcGroups
  /\ \E message \in TmcSystemWords :
       \E r \in {systemGroup(station.tmc_, message)} :
         /\ station' = [tmc_ |-> r.tmc]
         /\ last' = [last EXCEPT
                       !.op = "systemGroup", !.count = @ + 1,
                       !.x = 0, !.y = message, !.z = 0,
                       !.pre = station.tmc_, !.out = r.out,
                       !.system_seen = @ \/ bits(message, 14, 1) = 0,
                       !.encrypted = IF bits(message, 14, 1) = 0
                                       THEN bits(message, 6, 6) = 0 ELSE @,
                       !.pre_slot_ci = last.slot_ci]
  /\ UNCHANGED <<taken, profile, streams, sync_buffer, solo, log, acq, seen>>

\* an 8A group hands x (5 bits of block 2), y (block 3) and z (block 4) over
UserGroup ==
  /\ last.count < MaxTmcGroups
  /\ \E w \in TmcUserWords :
       \E r \in {userGroup(station.tmc_, w[1], w[2], w[3])} :
         /\ station' = [tmc_ |-> r.tmc]
         /\ last' = [last EXCEPT
                       !.op = "userGroup", !.count = @ + 1,
                       !.x = w[1], !.y = w[2], !.z = w[3],
                       !.pre = station.tmc_, !.out = r.out,
                       !.encid_seen = @ \/ (last.system_seen /\ bits(w[1], 0, 5) = 0),
                       !.slot_ci = SlotCiAfter(@, station.tmc_, r.tmc, w[1], w[2]),
                       !.pre_slot_ci = last.slot_ci]
  /\ UNCHANGED <<taken, profile, streams, sync_buffer, solo, log, acq, seen>>

NextTmc == SystemGroup \/ UserGroup

SpecTmc == InitTmc /\ [][NextTmc]_vars

\* the groups handed to a Station: Groups as a BlockStream assembles them, by
\* one setBlock call for each received block, in the order of the slots
NotReceived == 0 - 1

Install(group, block_num, word, offset) ==
  IF word = NotReceived THEN group
  ELSE setBlock(group, block_num,
                [raw |-> 0, data |-> word, is_received |-> TRUE,
                 had_errors |-> FALSE, offset |-> offset])

MakeGroup(w1, w2, w3, o3, w4) ==
  Install(Install(Install(Install(Group_new, BLOCK1, w1, "A"),
                          BLOCK2, w2, "B"), BLOCK3, w3, o3), BLOCK4, w4, "D")

\* block 2 of: 0A; 3A naming 11A, 5A, 7A, 9A, 6B; 11A, 5A, 6B, 7A, 9A, 15B
\* block 2 of 3A groups that name 0A and 15B, types with a handler of their own
NamingFixed == {\h3000, \h301F}

StationBlock2 ==
  {\h0000, \h3016, \h300A, \h300E, \h3012, \h300D,
   \hB000, \h5000, \h6800, \h7000, \h9000, \hF800} \cup NamingFixed

\* block 4: the application id of a 3A group (RadioText Plus, or one that the
\* decoder does not know); the groups of other types carry the second word
StationBlock4 == {\h4BD7, \h1234}

StationWords ==
  {w \in ({NotReceived} \cup StationBlock2) \X ({NotReceived} \cup StationBlock4) :
     /\ w[2] = \h4BD7 => (w[1] \div 2^11) = 6
     /\ w[1] \in NamingFixed => w[2] = \h4BD7}

StationGroups ==
  {MakeGroup(w1, w[1], w3[1], w3[2], w[2]) :
     w1 \in {NotReceived, \hE242},
     w \in StationWords,
     w3 \in {<<NotReceived, "C">>, <<\h0000, "C">>, <<\hE242, "Cprime">>}}

MaxStationGroups == 3   \* number of groups handed to the Station

IsRegistration(l) ==
  /\ l.op = "updateAndPrint"
  /\ l.out.printed
  /\ hasType(l.group)
  /\ getType(l.group) = [number |-> 3, version |-> "A"]

\* history: for each group type, the application id carried by the most
\* recent processed 3A group that named it
NamedAfter(l) ==
  IF IsRegistration(l) /\ has(l.group, BLOCK4)
    THEN (GroupType(getBlock2(l.group) % 32) :> getBlock4(l.group)) @@ l.named
    ELSE l.named

\* history: the same, of the 3A groups received with blocks 3 and 4
CompleteAfter(l) ==
  IF IsRegistration(l) /\ has(l.group, BLOCK3) /\ has(l.group, BLOCK4)
    THEN (GroupType(getBlock2(l.group) % 32) :> getBlock4(l.group)) @@ l.complete
    ELSE l.complete

\* history: whether the group handed over before this one had PI
HadPIAfter(l) ==
  IF l.op # "updateAndPrint" THEN "none"
  ELSE IF hasPI(l.group) THEN "yes" ELSE "no"

InitStation ==
  /\ profile = NoProfile
  /\ streams = [i \in {1} |-> BlockStream_new]
  /\ sync_buffer = SyncPulseBuffer_new
  /\ solo = [bs |-> BlockStream_new, buf |-> SyncPulseBuffer_new]
  /\ log = [i \in {1} |-> << >>]
  /\ acq = [i \in {1} |-> << >>]
  /\ seen = [i \in {1} |-> [labelled |-> 0, offgrid |-> FALSE]]
  /\ station \in {Station_new(\hE242, TRUE, had_pi) : had_pi \in BOOLEAN}
                 \cup {Station_new(0, FALSE, FALSE)}
  /\ taken = NothingTaken
  /\ last = [op |-> "Station", count |-> 0, group |-> Group_new,
             pre |-> station, out |-> NoOutput,
             named |-> << >>, complete |-> << >>, prev_had_pi |-> "none"]

\* one group is handed to the Station
UpdateAndPrint ==
  /\ last.count < MaxStationGroups
  /\ \E group \in StationGroups :
       \E r \in {updateAndPrint(station, group)} :
         /\ station' = r.station
         /\ last' = [op |-> "updateAndPrint", count |-> last.count + 1,
                     group |-> group, pre |-> station, out |-> r.out,
                     named |-> NamedAfter(last),
                     complete |-> CompleteAfter(last),
                     prev_had_pi |-> HadPIAfter(last)]
  /\ UNCHANGED <<taken, profile, streams, sync_buffer, solo, log, acq, seen>>

NextStation == UpdateAndPrint

SpecStation == InitStation /\ [][NextStation]_vars

---------------------------------------------------------------------------
(* Properties.  The single channel of SpecCold and SpecLong is channel 1.   *)

BitsPushed(i) == streams[i].bitcount_
InSync(i) == streams[i].is_in_sync_

\* the slots of a group that are received
ReceivedSlots(group) == {b \in BLOCK1..BLOCK4 : has(group, b)}

\* the only group made ready so far on channel i
OnlyGroup(i) == log[i][1].group

\* C1 as stated: after the last bit of block D of scenario S1 exactly one group
\* has been emitted, with slot 1 received holding 0xE242, type 0A and a PI.
C1_AsStated ==
  (profile = ScenarioS1 /\ BitsPushed(1) = 4 * kBlockLength) =>
     /\ Len(log[1]) = 1
     /\ has(OnlyGroup(1), BLOCK1)
     /\ OnlyGroup(1).blocks_[BLOCK1].data = \hE242
     /\ hasType(OnlyGroup(1))
     /\ getType(OnlyGroup(1)) = [number |-> 0, version |-> "A"]
     /\ hasPI(OnlyGroup(1))

\* C1, amended: on a cold start scenario S1 acquires sync at the end of block B
\* (bit 52), so block A is never stored.  No group is emitted before the last
\* bit of block D; exactly one is emitted there.  It holds blocks B, C and D
\* error-free (0x0000, 0xE0CD, 0x2020), has type 0A, and slot 1 is not
\* received, so hasPI() is false and getPI() is 0.
C1_ColdStartGroup ==
  profile = ScenarioS1 =>
     /\ BitsPushed(1) < 4 * kBlockLength =>
          log[1] = << >> /\ ~hasGroupReady(streams[1])
     /\ BitsPushed(1) >= 2 * kBlockLength =>
          acq[1] = << [what |-> "sync", at |-> 2 * kBlockLength] >>
     /\ BitsPushed(1) < 2 * kBlockLength => acq[1] = << >>
     /\ BitsPushed(1) >= 4 * kBlockLength =>
          /\ Len(log[1]) = 1
          /\ log[1][1].at = 4 * kBlockLength
          /\ ReceivedSlots(OnlyGroup(1)) = {BLOCK2, BLOCK3, BLOCK4}
          /\ OnlyGroup(1).blocks_[BLOCK2].data = \h0000
          /\ OnlyGroup(1).blocks_[BLOCK3].data = \hE0CD
          /\ OnlyGroup(1).blocks_[BLOCK4].data = \h2020
          /\ \A b \in BLOCK2..BLOCK4 : ~OnlyGroup(1).blocks_[b].had_errors
          /\ hasType(OnlyGroup(1))
          /\ getType(OnlyGroup(1)) = [number |-> 0, version |-> "A"]
          /\ ~hasPI(OnlyGroup(1))
          /\ getPI(OnlyGroup(1)) = 0

C1_Witness ==
  /\ profile = ScenarioS1
  /\ BitsPushed(1) = 4 * kBlockLength
  /\ Len(log[1]) = 1
  /\ hasGroupReady(streams[1])
  /\ streams[1].ready_group_ = OnlyGroup(1)

\* the streams of scenario S2: A, B, C, D of the 0A group, one bit of B flipped
FlippedBitInB ==
  {[NoProfile EXCEPT !.eblock = 1, !.evec = SingleBit(pos)] : pos \in 0..(kBlockLength - 1)}

\* C7 as stated: scenario S2 yields the group of S1 (all four slots received,
\* PI and type available) with block B corrected and marked had_errors.
C7_AsStated ==
  (profile = ScenarioS2 /\ BitsPushed(1) = 4 * kBlockLength) =>
     /\ Len(log[1]) = 1
     /\ ReceivedSlots(OnlyGroup(1)) = {BLOCK1, BLOCK2, BLOCK3, BLOCK4}
     /\ OnlyGroup(1).blocks_[BLOCK2].had_errors
     /\ OnlyGroup(1).blocks_[BLOCK2].data = \h0000
     /\ hasType(OnlyGroup(1))
     /\ hasPI(OnlyGroup(1))

\* C7, amended: on a cold start, with one bit of block B flipped (any of its
\* 26 bits), the corrupted block passes while the BlockStream is still out of
\* sync, where no correction is tried.  Sync is acquired at the end of block C
\* (bit 78, from the sightings of A and C), and the one group emitted after the
\* last bit of block D holds blocks C and D alone, error-free: slots 1 and 2
\* are not received, no slot is marked had_errors, hasType() and hasPI() are
\* false.
C7_FlippedBitGroup ==
  profile \in FlippedBitInB =>
     /\ BitsPushed(1) < 4 * kBlockLength => log[1] = << >>
     /\ BitsPushed(1) < 3 * kBlockLength => acq[1] = << >>
     /\ BitsPushed(1) >= 3 * kBlockLength =>
          acq[1] = << [what |-> "sync", at |-> 3 * kBlockLength] >>
     /\ BitsPushed(1) >= 4 * kBlockLength =>
          /\ Len(log[1]) = 1
          /\ log[1][1].at = 4 * kBlockLength
          /\ ReceivedSlots(OnlyGroup(1)) = {BLOCK3, BLOCK4}
          /\ OnlyGroup(1).blocks_[BLOCK3].data = \hE0CD
          /\ OnlyGroup(1).blocks_[BLOCK4].data = \h2020
          /\ \A b \in BLOCK1..BLOCK4 : ~OnlyGroup(1).blocks_[b].had_errors
          /\ ~hasType(OnlyGroup(1))
          /\ ~hasPI(OnlyGroup(1))

C7_Witness ==
  /\ profile = ScenarioS2
  /\ BitsPushed(1) = 4 * kBlockLength
  /\ Len(log[1]) = 1
  /\ ReceivedSlots(streams[1].ready_group_) = {BLOCK3, BLOCK4}

\* an error-free stream: no block is corrupted
ErrorFree(p) == p.base = "clean" /\ p.eblock = -1

\* C5 as stated: while fewer than four complete blocks (4 * 26 bits) of a
\* correctly offset-labelled stream have been fed to it, a BlockStream is not
\* in sync.
C5_AsStated ==
  \A i \in Inst :
    (ErrorFree(profile) /\ BitsPushed(i) < 4 * kBlockLength) => ~InSync(i)

\* the windows with the syndrome of an offset word that the out-of-sync
\* channels of the process have met so far
Sightings == seen[1].labelled + seen[2].labelled

\* C5, amended: no BlockStream of a process is or has been in sync as long as
\* fewer than two 26-bit windows with the syndrome of an offset word have been
\* met by the out-of-sync BlockStreams of the process, whatever the bits are.
\* Two such windows are enough: sync is acquired after two complete blocks
\* (2 * 26 bits), not four.
C5_TwoSightingsNeeded ==
  Sightings < 2 => \A i \in Inst : ~InSync(i) /\ acq[i] = << >>

C5_Witness ==
  /\ ErrorFree(profile)
  /\ BitsPushed(1) = 2 * kBlockLength
  /\ BitsPushed(2) = 0
  /\ Sightings = 2
  /\ InSync(1)

\* C2: two BlockStream objects of one process that have been pushed the same
\* bits (in any interleaving) have emitted the same groups, slot by slot, and
\* acquired sync at the same bit positions.
C2_SameOutputOnBothChannels ==
  BitsPushed(1) = BitsPushed(2) => (log[1] = log[2] /\ acq[1] = acq[2])

\* C3: no pushBit on another BlockStream changes whether or when a BlockStream
\* acquires sync or what groups it assembles: channel 1 of a two-channel
\* process is in the state it reaches when it is fed the same bits in a process
\* of its own.
C3_NoInterference ==
  /\ streams[1].is_in_sync_ = solo.bs.is_in_sync_
  /\ streams[1].expected_offset_ = solo.bs.expected_offset_
  /\ streams[1].current_group_ = solo.bs.current_group_
  /\ streams[1].ready_group_ = solo.bs.ready_group_
  /\ streams[1].num_bits_since_sync_lost_ = solo.bs.num_bits_since_sync_lost_

\* the sightings older than the latest, once the latest has been pushed on buf
OlderSightings(buf) == {buf[k] : k \in 1..(kNumPulses - 1)}

\* the rule of C8 for the latest sighting and one older sighting p
AnchoredBy(p, latest) ==
  LET d == latest.bitcount - p.bitcount
  IN  /\ d > 0
      /\ d % kBlockLength = 0
      /\ d \div kBlockLength <= kMaxSyncBlocks
      /\ p.offset # "invalid"
      /\ (getBlockNumberForOffset(p.offset) + d \div kBlockLength) % 4
           = getBlockNumberForOffset(latest.offset)

\* the state in which acquireSync leaves a BlockStream that it takes into sync
\* on a window of this offset, as seen after the rest of the pushBit: the
\* counter is 0, the next offset is expected, and nothing but the window's
\* block is in the group being assembled
AcquisitionEffects(post, offset) ==
  /\ post.num_bits_since_sync_lost_ = 0
  /\ post.expected_offset_ = getNextOffsetFor(offset)
  /\ ReceivedSlots(IF offset = "D" THEN post.ready_group_ ELSE post.current_group_)
       = {getBlockNumberForOffset(offset)}

\* C8: a pushBit on an out-of-sync BlockStream takes it into sync iff the
\* window it completes has a valid offset and some older sighting p of the
\* sync pulse buffer lies d bits before it with d a positive multiple of 26,
\* d/26 <= 6, p.offset valid and (blockNumber(p.offset) + d/26) mod 4 =
\* blockNumber(latest.offset); acquisition sets the expected offset to the
\* window's, clears the assembling group and resets the out-of-sync counter.
C8_AcquisitionRule ==
  (last.op = "pushBit" /\ ~last.pre.is_in_sync_) =>
     \A offset \in {WindowOffset(last.pre, last.bit)} :
       /\ streams[last.inst].is_in_sync_ <=>
            /\ offset # "invalid"
            /\ \E p \in OlderSightings(last.buf) :
                 AnchoredBy(p, [offset |-> offset,
                                bitcount |-> streams[last.inst].bitcount_])
       /\ streams[last.inst].is_in_sync_ =>
            AcquisitionEffects(streams[last.inst], offset)

\* the bit after which the j-th group of an error-free stream is complete when
\* sync is acquired at the end of its second block: the end of the first D
\* block from the second block on, and every 4 * 26 bits from there
GroupBit(p, j) ==
  kBlockLength * (1 + (CHOOSE k \in 1..4 : (p.start + k) % 4 = 3))
    + 4 * kBlockLength * (j - 1)

\* C4 as stated: on every error-free stream that starts on a block boundary the
\* BlockStream is in sync once 4 * 26 + 26 bits are in, and from acquisition
\* on it stays in sync and completes a group exactly every 104 bits.
C4_AsStated ==
  ErrorFree(profile) =>
     /\ BitsPushed(1) >= 5 * kBlockLength => acq[1] # << >>
     /\ Len(acq[1]) <= 1
     /\ \A j \in 2..Len(log[1]) : log[1][j].at - log[1][j - 1].at = 4 * kBlockLength

\* C4, amended: on a cold start, on every error-free stream that starts on a
\* block boundary and in which no 26-bit window off the block grid has the
\* syndrome of an offset word before sync is acquired, sync is acquired
\* exactly at the end of the second block (bit 52) and never lost, and a group
\* is completed at the end of every D block from then on, 104 bits apart.
\* (Where such a window exists the BlockStream can lock on to it, lose sync
\* later and complete two groups more than 104 bits apart.)
C4_GroupEvery104Bits ==
  (ErrorFree(profile) /\ ~seen[1].offgrid) =>
     /\ BitsPushed(1) < 2 * kBlockLength => acq[1] = << >>
     /\ BitsPushed(1) >= 2 * kBlockLength =>
          acq[1] = << [what |-> "sync", at |-> 2 * kBlockLength] >>
     /\ \A j \in 1..Len(log[1]) : log[1][j].at = GroupBit(profile, j)
     /\ GroupBit(profile, Len(log[1]) + 1) > BitsPushed(1)

C4_Witness ==
  /\ ErrorFree(profile)
  /\ ~seen[1].offgrid
  /\ InSync(1)
  /\ Len(log[1]) = 2
  /\ log[1][2].at - log[1][1].at = 4 * kBlockLength
  /\ BitsPushed(1) = MaxCleanBlocks * kBlockLength

\* the index (from 0) of the block that the last pushed bit completed
BlockIndex(i) == BitsPushed(i) \div kBlockLength - 1

\* the blocks the channel hit among the last 50 up to block K, the first
\* in-sync block being block 1
RECURSIVE ErrCount(_, _, _)
ErrCount(p, K, n) ==
  IF n = 0 \/ K < 1 THEN 0
  ELSE (IF ErrorAt(p, K) # 0 THEN 1 ELSE 0) + ErrCount(p, K - 1, n - 1)

\* the last pushBit decided an in-sync block, and sync was not lost before it
InSyncDecision ==
  /\ last.op = "pushBit"
  /\ last.pre.is_in_sync_
  /\ DecisionMade(last.pre)
  /\ \A j \in 1..Len(acq[1]) : acq[1][j].what = "loss" => acq[1][j].at = BitsPushed(1)

ExpectedOfLast ==
  IF last.pre.expected_offset_ = "C" /\ WindowOffset(last.pre, last.bit) = "Cprime"
    THEN "Cprime" ELSE last.pre.expected_offset_

\* the last pushBit decided an in-sync block that has errors and cannot be corrected
UncorrectableDecision ==
  /\ last.op = "pushBit"
  /\ last.pre.is_in_sync_
  /\ DecisionMade(last.pre)
  /\ WindowOffset(last.pre, last.bit) # ExpectedOfLast
  /\ ~correctBurstErrors(WindowAfter(last.pre, last.bit), ExpectedOfLast).succeeded

\* the group the block decided last belongs to
GroupOfLast(bs) ==
  IF ExpectedOfLast = "D" THEN bs.ready_group_ ELSE bs.current_group_

\* C9: when an in-sync block has errors and cannot be corrected, sync is
\* dropped and the window zeroed iff the sum of the last 50 flags, the block's
\* own included, exceeds 45; otherwise the BlockStream stays in sync, the
\* window is the old one with the flag pushed, and the block's slot is left
\* unreceived.
C9_UncorrectableBlock ==
  UncorrectableDecision =>
     \A pushed \in {RunningSum_push(last.pre.block_error_sum50_, 1)} :
        /\ ~InSync(1) <=> getSum(pushed) > kSyncLossThreshold
        /\ ~InSync(1) => \A k \in 0..(kSumWindow - 1) :
                            streams[1].block_error_sum50_.history_[k] = 0
        /\ InSync(1) => streams[1].block_error_sum50_ = pushed
        /\ ~GroupOfLast(streams[1]).blocks_[getBlockNumberForOffset(ExpectedOfLast)]
              .is_received

C9_Witness ==
  /\ UncorrectableDecision
  /\ ~InSync(1)
  /\ getSum(RunningSum_push(last.pre.block_error_sum50_, 1)) = kSyncLossThreshold + 1
  /\ getSum(streams[1].block_error_sum50_) = 0

\* no two error patterns of one offset have the same syndrome in the table
NoSharedSyndrome ==
  \A o \in RealOffsets : \A i, j \in DOMAIN error_lookup_table[o] :
     error_lookup_table[o][i].syndrome = error_lookup_table[o][j].syndrome
       => error_lookup_table[o][i].error_vector = error_lookup_table[o][j].error_vector

\* C10: for a block encode(data, O) hit by one flipped bit or two adjacent
\* flipped bits, correctBurstErrors with expected offset O succeeds and the
\* corrected bits shifted right by 10 are the data sent; no two error patterns
\* of an offset share a syndrome.
C10_BurstCorrectionExact ==
  /\ NoSharedSyndrome
  /\ last.op = "correctBurstErrors" =>
        /\ last.result.succeeded
        /\ (last.result.corrected_bits \div 2^kCheckwordLength) % kUint16 = profile.data
        /\ last.result.corrected_bits = Encode(profile.data, profile.offset)

C10_Witness ==
  /\ last.op = "correctBurstErrors"
  /\ profile.error = DoubleBit(3)
  /\ (last.raw \div 2^kCheckwordLength) % kUint16 # profile.data
  /\ last.result.succeeded
  /\ (last.result.corrected_bits \div 2^kCheckwordLength) % kUint16 = profile.data

\* the syndromes of the offset words as the standard's table lists them
TableSyndrome(o) ==
  CASE o = "A" -> \b1111011000
    [] o = "B" -> \b1111010100
    [] o = "C" -> \b1001011100
    [] o = "Cprime" -> \b1111001100
    [] o = "D" -> \b1001011000

\* C11: an intact block sent with offset O is read as O; the offset word of O
\* has the syndrome the table lists for O; the syndrome listed for O reads as
\* O and every other syndrome value reads as invalid.
C11_OffsetRecognised ==
  /\ last.op = "calculateSyndrome" =>
        /\ last.of_block = profile.offset
        /\ last.word_syndrome = TableSyndrome(profile.offset)
  /\ last.op = "getOffsetForSyndrome" =>
        /\ \A o \in RealOffsets : profile.syndrome = TableSyndrome(o) => last.of_value = o
        /\ (\A o \in RealOffsets : profile.syndrome # TableSyndrome(o))
             => last.of_value = "invalid"

C11_Witness ==
  /\ last.op = "calculateSyndrome"
  /\ profile.offset = "Cprime"
  /\ profile.data = \hE242
  /\ last.of_block = "Cprime"
  /\ last.word_syndrome = \b1111001100

\* the last pushBit decided an in-sync block whose offset is not the expected
\* one and which correctBurstErrors corrects
CorrectedDecision ==
  /\ last.op = "pushBit"
  /\ last.pre.is_in_sync_
  /\ DecisionMade(last.pre)
  /\ WindowOffset(last.pre, last.bit) # ExpectedOfLast
  /\ correctBurstErrors(WindowAfter(last.pre, last.bit), ExpectedOfLast).succeeded

\* C12: an in-sync block whose observed offset differs from the expected one
\* and which correctBurstErrors corrects is stored in the slot of the expected
\* offset with had_errors and is_received set, tagged with the expected
\* offset, its data taken from the corrected bits; a 1 is pushed into the
\* 50-block window and the BlockStream stays in sync.
C12_CorrectedBlockStored ==
  CorrectedDecision =>
     \A c \in {correctBurstErrors(WindowAfter(last.pre, last.bit), ExpectedOfLast)} :
        /\ GroupOfLast(streams[1]).blocks_[getBlockNumberForOffset(ExpectedOfLast)]
             = [raw |-> WindowAfter(last.pre, last.bit),
                data |-> (c.corrected_bits \div 2^kCheckwordLength) % kUint16,
                is_received |-> TRUE,
                had_errors |-> TRUE,
                offset |-> ExpectedOfLast]
        /\ streams[1].block_error_sum50_
             = RunningSum_push(last.pre.block_error_sum50_, 1)
        /\ InSync(1)

C12_Witness ==
  /\ CorrectedDecision
  /\ profile \in FlipProfiles
  /\ profile.eblock = 2
  /\ profile.evec = DoubleBit(3)
  /\ streams[1].current_group_.blocks_[BLOCK3].had_errors
  /\ streams[1].current_group_.blocks_[BLOCK3].data = \hE0CD
  /\ getSum(streams[1].block_error_sum50_) = 1

\* the syndromes that have an entry in the error table, per offset
CorrectableSyndromes ==
  [o \in RealOffsets |->
     {error_lookup_table[o][i].syndrome : i \in DOMAIN error_lookup_table[o]}]

\* the last pushBit decided an in-sync block whose offset is not the expected
\* one and for whose syndrome the error table has no entry under that offset
NoTableEntryDecision ==
  /\ last.op = "pushBit"
  /\ last.pre.is_in_sync_
  /\ DecisionMade(last.pre)
  /\ WindowOffset(last.pre, last.bit) # ExpectedOfLast
  /\ calculateSyndrome(WindowAfter(last.pre, last.bit)) % kUint16
       \notin CorrectableSyndromes[ExpectedOfLast]

\* C13: when the error table has no entry for the block's syndrome under the
\* expected offset, correctBurstErrors fails and returns the raw word
\* unmodified, the slot of the expected offset stays unreceived in its group,
\* and the error flag has been pushed into the window: the window is the old
\* one with a 1 pushed, or, if that push brought the sum above 45, sync is
\* dropped and the window is cleared.
C13_UncorrectedBlockDropped ==
  NoTableEntryDecision =>
     /\ correctBurstErrors(WindowAfter(last.pre, last.bit), ExpectedOfLast)
          = [succeeded |-> FALSE, corrected_bits |-> WindowAfter(last.pre, last.bit)]
     /\ ~has(GroupOfLast(streams[1]), getBlockNumberForOffset(ExpectedOfLast))
     /\ GroupOfLast(streams[1]).blocks_[getBlockNumberForOffset(ExpectedOfLast)]
          = Block_new
     /\ \A pushed \in {RunningSum_push(last.pre.block_error_sum50_, 1)} :
          IF getSum(pushed) > kSyncLossThreshold
            THEN streams[1].block_error_sum50_ = RunningSum_clear(pushed)
            ELSE streams[1].block_error_sum50_ = pushed

C13_Witness ==
  /\ NoTableEntryDecision
  /\ InSync(1)
  /\ getSum(streams[1].block_error_sum50_) = 3
  /\ ~has(streams[1].current_group_, BLOCK1)
  /\ ExpectedOfLast = "A"

\* the last pushBit decided an in-sync block with the syndrome of C' while C
\* was expected
CprimeDecision ==
  /\ last.op = "pushBit"
  /\ last.pre.is_in_sync_
  /\ DecisionMade(last.pre)
  /\ last.pre.expected_offset_ = "C"
  /\ WindowOffset(last.pre, last.bit) = "Cprime"

\* C14: a block with the syndrome of C' met in sync while C is expected is
\* stored in slot 3 with offset C', is_received set and had_errors clear; a 0
\* is pushed into the window; hasPI() holds of the group, getPI() giving the
\* data of slot 3 when slot 1 is not received; the next expected offset is D.
C14_CprimeStored ==
  CprimeDecision =>
     /\ streams[1].current_group_.blocks_[BLOCK3]
          = [raw |-> WindowAfter(last.pre, last.bit),
             data |-> (WindowAfter(last.pre, last.bit) \div 2^kCheckwordLength) % kUint16,
             is_received |-> TRUE,
             had_errors |-> FALSE,
             offset |-> "Cprime"]
     /\ hasPI(streams[1].current_group_)
     /\ ~has(streams[1].current_group_, BLOCK1) =>
          getPI(streams[1].current_group_)
            = (WindowAfter(last.pre, last.bit) \div 2^kCheckwordLength) % kUint16
     /\ streams[1].expected_offset_ = "D"
     /\ streams[1].block_error_sum50_ = RunningSum_push(last.pre.block_error_sum50_, 0)
     /\ InSync(1)

C14_Witness ==
  /\ CprimeDecision
  /\ profile.cprime
  /\ profile.data = 2
  /\ ~has(streams[1].current_group_, BLOCK1)
  /\ streams[1].current_group_.blocks_[BLOCK3].offset = "Cprime"
  /\ getPI(streams[1].current_group_) = \hE242

\* the cycle of expected offsets
NextInCycle(o) ==
  CASE o = "A" -> "B"
    [] o = "B" -> "C"
    [] o = "C" -> "D"
    [] o = "Cprime" -> "D"
    [] o = "D" -> "A"

\* the last pushBit decided a block on a BlockStream that was in sync
BlockDecision ==
  /\ last.op = "pushBit"
  /\ last.pre.is_in_sync_
  /\ DecisionMade(last.pre)

\* C15: every block decision made in sync advances expected_offset by
\* A -> B -> C -> D -> A (C' -> D), whether or not the block was received.
\* Exactly when the new expected offset is A the group assembled so far (the
\* block just decided included, if it was received) becomes ready_group,
\* has_group_ready is set and current_group is an empty group again; otherwise
\* ready_group and has_group_ready are left alone.
C15_GroupCycle ==
  BlockDecision =>
     /\ streams[1].expected_offset_ = NextInCycle(ExpectedOfLast)
     /\ streams[1].expected_offset_ = "A" =>
          /\ streams[1].has_group_ready_
          /\ streams[1].current_group_ = Group_new
          /\ \A b \in BLOCK1..BLOCK3 :
               streams[1].ready_group_.blocks_[b] = last.pre.current_group_.blocks_[b]
          /\ streams[1].ready_group_.blocks_[BLOCK4].is_received =>
               streams[1].ready_group_.blocks_[BLOCK4].raw
                 = WindowAfter(last.pre, last.bit)
     /\ streams[1].expected_offset_ # "A" =>
          /\ streams[1].ready_group_ = last.pre.ready_group_
          /\ streams[1].has_group_ready_ = last.pre.has_group_ready_
          /\ \A b \in BLOCK1..BLOCK4 :
               b # getBlockNumberForOffset(ExpectedOfLast) =>
                 streams[1].current_group_.blocks_[b] = last.pre.current_group_.blocks_[b]

\* a group completed although its last block was not received
C15_Witness ==
  /\ BlockDecision
  /\ InSync(1)
  /\ ExpectedOfLast = "D"
  /\ ~has(streams[1].ready_group_, BLOCK4)
  /\ has(streams[1].ready_group_, BLOCK2)
  /\ streams[1].has_group_ready_
  /\ streams[1].current_group_ = Group_new

\* what C16 says of one step
PollContractStep ==
  /\ last'.op = "popGroup" => ~hasGroupReady(streams'[last'.inst])
  /\ \A i \in Inst :
       (~hasGroupReady(streams[i]) /\ hasGroupReady(streams'[i])) =>
          /\ last'.op = "pushBit"
          /\ streams'[i].expected_offset_ = "A"
          /\ Len(log'[i]) = Len(log[i]) + 1
  /\ last'.op = "hasGroupReady" =>
       /\ streams' = streams
       /\ sync_buffer' = sync_buffer
       /\ last'.result = streams[last'.inst].has_group_ready_

\* C16: after popGroup returns, hasGroupReady() is false, and it stays false
\* until a pushBit completes the next group cycle; hasGroupReady() changes
\* nothing and reports has_group_ready.
C16_PollContract == [][PollContractStep]_vars

C16_Witness ==
  /\ last.op = "popGroup"
  /\ last.pre.has_group_ready_
  /\ ~hasGroupReady(streams[1])
  /\ Len(log[1]) = 1

\* channel 1 apart from the flag that popGroup clears
Unpolled(bs) == [bs EXCEPT !.has_group_ready_ = FALSE]

\* C17: flushCurrentGroup returns the group being assembled and leaves every
\* field of the BlockStream and the sync pulse buffer as they were; whatever
\* calls of it were made, the BlockStream is in the state of its twin that
\* was pushed the same bits and never flushed (up to the flag popGroup clears).
C17_FlushReadOnly ==
  /\ last.op = "flushCurrentGroup" =>
       /\ streams[last.inst] = last.pre
       /\ sync_buffer = last.buf
       /\ last.result = last.pre.current_group_
  /\ Unpolled(streams[1]) = Unpolled(solo.bs)

C17_Witness ==
  /\ last.op = "flushCurrentGroup"
  /\ InSync(1)
  /\ ReceivedSlots(last.result) = {BLOCK2, BLOCK3}
  /\ streams[1].current_group_ = last.result

\* the last pushBit dropped sync, or found the BlockStream out of sync
LossOrOutOfSync ==
  /\ last.op = "pushBit"
  /\ Lost(last.pre, streams[1]) \/ ~last.pre.is_in_sync_

\* C18 as stated: a group that is ready and not popped when sync is dropped
\* is still the ready group after the pushBit that drops sync and after every
\* pushBit made while out of sync.
C18_AsStated ==
  (LossOrOutOfSync /\ last.pre.has_group_ready_) =>
     /\ streams[1].ready_group_ = last.pre.ready_group_
     /\ streams[1].has_group_ready_

\* C18, amended: neither dropping sync nor a pushBit on an out-of-sync
\* BlockStream touches ready_group or has_group_ready, unless that pushBit
\* completes a group cycle.  The block decision that drops sync still advances
\* expected_offset, so when the uncorrectable block was expected at D the
\* partly assembled group replaces the ready group in that same pushBit, popped
\* or not; so does the pushBit that re-acquires sync on a D block, with a group
\* that holds that block alone.
C18_ReadyGroupKeptUnlessCycleEnds ==
  LossOrOutOfSync =>
     IF GroupCompleted(last.pre, streams[1])
       THEN /\ streams[1].has_group_ready_
            /\ Lost(last.pre, streams[1]) =>
                 /\ ExpectedOfLast = "D"
                 /\ ~has(streams[1].ready_group_, BLOCK4)
                 /\ \A b \in BLOCK1..BLOCK3 :
                      streams[1].ready_group_.blocks_[b]
                        = last.pre.current_group_.blocks_[b]
            /\ Acquired(last.pre, streams[1]) =>
                 /\ WindowOffset(last.pre, last.bit) = "D"
                 /\ ReceivedSlots(streams[1].ready_group_) = {BLOCK4}
       ELSE /\ streams[1].ready_group_ = last.pre.ready_group_
            /\ streams[1].has_group_ready_ = last.pre.has_group_ready_

\* sync is dropped on a block expected at D while a group is ready and not
\* popped, and another group takes its place
C18_Witness ==
  /\ last.op = "pushBit"
  /\ Lost(last.pre, streams[1])
  /\ last.pre.has_group_ready_
  /\ ExpectedOfLast = "D"
  /\ streams[1].ready_group_ # last.pre.ready_group_

\* the bit at which sync is dropped in scenario S3: the end of the 46th
\* corrupted block; and the bit at which it is re-acquired: the end of the
\* second intact block after the run
S3LossBit == (2 + kSyncLossThreshold + 1) * kBlockLength
S3ResyncBit == (2 + S3BadBlocks + 2) * kBlockLength

\* C19: in scenario S3 (sync acquired on two intact blocks, then 50 blocks
\* that are neither recognised nor correctable) the BlockStream drops sync
\* during the run, at its 46th block, and is out of sync with an all-zero
\* window from there to the end of the run and beyond; the intact stream that
\* follows re-acquires sync at the end of its second block, on a sighting
\* anchored by an older one according to the acquisition rule.
C19_LossAndReacquisition ==
  profile \in ScenarioS3 =>
     /\ (2 * kBlockLength <= BitsPushed(1) /\ BitsPushed(1) < S3LossBit) =>
          (InSync(1) /\ acq[1] = << [what |-> "sync", at |-> 2 * kBlockLength] >>)
     /\ (S3LossBit <= BitsPushed(1) /\ BitsPushed(1) < S3ResyncBit) =>
          /\ ~InSync(1)
          /\ \A k \in 0..(kSumWindow - 1) : streams[1].block_error_sum50_.history_[k] = 0
          /\ acq[1] = << [what |-> "sync", at |-> 2 * kBlockLength],
                         [what |-> "loss", at |-> S3LossBit] >>
     /\ BitsPushed(1) >= S3ResyncBit =>
          /\ InSync(1)
          /\ acq[1] = << [what |-> "sync", at |-> 2 * kBlockLength],
                         [what |-> "loss", at |-> S3LossBit],
                         [what |-> "sync", at |-> S3ResyncBit] >>
     /\ (last.op = "pushBit" /\ Acquired(last.pre, streams[1])) =>
          \E p \in OlderSightings(last.buf) :
             AnchoredBy(p, [offset |-> WindowOffset(last.pre, last.bit),
                            bitcount |-> BitsPushed(1)])

C19_Witness ==
  /\ profile \in ScenarioS3
  /\ BitsPushed(1) = S3ResyncBit
  /\ InSync(1)
  /\ Len(acq[1]) = 3
  /\ getSum(streams[1].block_error_sum50_) = 0

\* the Group of SpecGroup
TheGroup == streams[1].current_group_

\* C20: hasPI() holds iff slot 1 is received, or slot 3 is received with
\* offset C'; getPI() is the data of slot 1 if slot 1 is received, else the
\* data of slot 3 if slot 3 is received with offset C', else 0x0000.
C20_PIFromSlotOneOrCprime ==
  /\ hasPI(TheGroup) <=>
       \/ TheGroup.blocks_[BLOCK1].is_received
       \/ (TheGroup.blocks_[BLOCK3].is_received
             /\ TheGroup.blocks_[BLOCK3].offset = "Cprime")
  /\ TheGroup.blocks_[BLOCK1].is_received =>
       getPI(TheGroup) = TheGroup.blocks_[BLOCK1].data
  /\ (~TheGroup.blocks_[BLOCK1].is_received
        /\ TheGroup.blocks_[BLOCK3].is_received
        /\ TheGroup.blocks_[BLOCK3].offset = "Cprime") =>
       getPI(TheGroup) = TheGroup.blocks_[BLOCK3].data
  /\ (~TheGroup.blocks_[BLOCK1].is_received
        /\ ~(TheGroup.blocks_[BLOCK3].is_received
               /\ TheGroup.blocks_[BLOCK3].offset = "Cprime")) =>
       getPI(TheGroup) = \h0000

\* slot 1 was set but not received; the PI comes from slot 3, tagged C'
C20_Witness ==
  /\ last.op = "setBlock"
  /\ last.count >= 2
  /\ ~TheGroup.blocks_[BLOCK1].is_received
  /\ TheGroup.blocks_[BLOCK1].data = \hF800
  /\ TheGroup.blocks_[BLOCK3].is_received
  /\ TheGroup.blocks_[BLOCK3].offset = "Cprime"
  /\ hasPI(TheGroup)
  /\ getPI(TheGroup) = \hE242


\* C21: when block 2 is installed, type.number is bits 15..12 and version is
\* bit 11 (0 = A, 1 = B) of its data; has_type is true at once for version A;
\* for version B has_type is true iff a C' block has already been seen for
\* this group or no_offsets was set on the group.
C21_TypeAtBlockTwo ==
  (last.op = "setBlock" /\ last.block_num = BLOCK2) =>
    /\ getType(TheGroup).number = (last.block.data \div 2^12) % 16
    /\ getType(TheGroup).version =
         (IF (last.block.data \div 2^11) % 2 = 0 THEN "A" ELSE "B")
    /\ getType(TheGroup).version = "A" => hasType(TheGroup)
    /\ getType(TheGroup).version = "B" =>
         (hasType(TheGroup) <=> (last.cprime_seen \/ TheGroup.no_offsets_))

\* C22: when block 4 is installed into a group that has no type yet, has_type
\* becomes true with type (15, B) exactly when a C' block has been seen for
\* this group and bits 15..11 of block 4 encode (15, B); in every other case
\* installing block 4 leaves type and has_type unchanged.
C22_BlockFourSecondChance ==
  (last.op = "setBlock" /\ last.block_num = BLOCK4 /\ ~last.pre_has_type) =>
    IF /\ last.cprime_seen
       /\ (last.block.data \div 2^12) % 16 = 15
       /\ (last.block.data \div 2^11) % 2 = 1
      THEN hasType(TheGroup) /\ getType(TheGroup) = [number |-> 15, version |-> "B"]
      ELSE /\ hasType(TheGroup) = last.pre_has_type
           /\ getType(TheGroup) = last.pre_type

\* C23 as stated: when a block with offset C' is installed into a group whose
\* block 2 is already received, has_type becomes true for a version-B group
\* and keeps the value it had before for a version-A group.
C23_AsStated ==
  (last.op = "setBlock" /\ last.block_num = BLOCK3
     /\ last.block.offset = "Cprime" /\ has(TheGroup, BLOCK2)) =>
    /\ getType(TheGroup).version = "B" => hasType(TheGroup)
    /\ getType(TheGroup).version = "A" => hasType(TheGroup) = last.pre_has_type

\* C23: when a block with offset C' is installed into a group whose block 2 is
\* already received, has_type becomes true for a version-B group and false for
\* a version-A group, whatever it was before; the type itself is unchanged.
C23_CprimeSetsHasTypeToVersionB ==
  (last.op = "setBlock" /\ last.block_num = BLOCK3
     /\ last.block.offset = "Cprime" /\ has(TheGroup, BLOCK2)) =>
    /\ getType(TheGroup) = last.pre_type
    /\ hasType(TheGroup) <=> (getType(TheGroup).version = "B")

\* a version-A group that had its type loses it when a C' block is installed
C23_Witness ==
  /\ last.op = "setBlock"
  /\ last.block_num = BLOCK3
  /\ last.block.offset = "Cprime"
  /\ last.block.is_received
  /\ has(TheGroup, BLOCK2)
  /\ getType(TheGroup) = [number |-> 0, version |-> "A"]
  /\ last.pre_has_type
  /\ ~hasType(TheGroup)

\* the handlers that the dispatch table allows for a group type
TableHandlers(type) ==
  IF type.number = 0 THEN {"decodeType0"}
  ELSE IF type.number = 1 THEN {"decodeType1"}
  ELSE IF type.number = 2 THEN {"decodeType2"}
  ELSE IF type.number = 3 /\ type.version = "A" THEN {"decodeType3A"}
  ELSE IF type.number = 4 /\ type.version = "A" THEN {"decodeType4A"}
  ELSE IF type.number = 5 THEN {"decodeType5", "decodeODAGroup"}
  ELSE IF type.number = 6 THEN {"decodeType6", "decodeODAGroup"}
  ELSE IF type.number = 7 /\ type.version = "A" THEN {"decodeType7A", "decodeODAGroup"}
  ELSE IF type.number = 8 /\ type.version = "A"
    THEN {"tmc_.receiveUserGroup", "decodeODAGroup"}
  ELSE IF type.number = 9 /\ type.version = "A" THEN {"decodeType9A", "decodeODAGroup"}
  ELSE IF type.number = 10 /\ type.version = "A" THEN {"decodeType10A"}
  ELSE IF type.number = 14 THEN {"decodeType14"}
  ELSE IF type.number = 15 /\ type.version = "B" THEN {"decodeType15B"}
  ELSE {"decodeODAGroup"}

TypedGroupHandled ==
  last.op = "updateAndPrint" /\ last.out.printed /\ hasType(last.group)

\* the primary function of the group types that an ODA can take over
PrimaryHandler(type) ==
  IF type.number = 5 THEN "decodeType5"
  ELSE IF type.number = 6 THEN "decodeType6"
  ELSE IF type.number = 7 THEN "decodeType7A"
  ELSE "decodeType9A"

Reassignable(type) ==
  \/ type.number \in {5, 6}
  \/ (type.number \in {7, 9} /\ type.version = "A")

\* C25 as stated: whatever groups were processed before, a typed group of
\* type 5A or 5B reaches the transparent-data-channel handler, type 6 the
\* in-house handler, 7A the paging stub and 9A the emergency-warning stub.
C25_AsStated ==
  (TypedGroupHandled /\ Reassignable(getType(last.group))) =>
    last.out.calls = <<PrimaryHandler(getType(last.group))>>

\* C25: a typed group of type 0, 1, 2, 3A, 4A, 10A, 14 or 15B always reaches
\* the handler of its type; a typed group of type 5, 6, 7A or 9A reaches the
\* handler of its type only while no processed 3A group (received with blocks
\* 3 and 4) has named its (number, version), and reaches the ODA handler once
\* one has.
C25_FixedUnlessRegistered ==
  TypedGroupHandled =>
    /\ ~Reassignable(getType(last.group)) =>
         last.out.calls[1] \in TableHandlers(getType(last.group))
    /\ (Reassignable(getType(last.group))
          /\ getType(last.group) \notin DOMAIN last.complete) =>
         last.out.calls = <<PrimaryHandler(getType(last.group))>>
    /\ (Reassignable(getType(last.group))
          /\ getType(last.group) \in DOMAIN last.complete) =>
         /\ last.out.calls = <<"decodeODAGroup">>
         /\ last.out.oda.has_app
         /\ last.out.oda.app_id = last.complete[getType(last.group)]

\* a 3A group has named 5A for RadioText Plus, and the 5A group that follows
\* reaches the ODA handler, not the transparent data channel
C25_Witness ==
  /\ TypedGroupHandled
  /\ getType(last.group) = [number |-> 5, version |-> "A"]
  /\ [number |-> 5, version |-> "A"] \in DOMAIN last.complete
  /\ last.complete[[number |-> 5, version |-> "A"]] = \h4BD7
  /\ last.out.calls = <<"decodeODAGroup">>
  /\ last.out.oda.sink = "parseRadioTextPlus"

\* the (number, version) pairs listed in the dispatch table
InFixedTable(type) ==
  \/ type.number \in {0, 1, 2, 5, 6, 14}
  \/ (type.number \in {3, 4, 7, 8, 9, 10} /\ type.version = "A")
  \/ (type.number = 15 /\ type.version = "B")

UnknownOdaSink == [sink |-> "unknown_oda", has_app |-> FALSE, app_id |-> 0]

\* the group went to the ODA user-message handler for application app_id
RoutedToOda(app_id) ==
  /\ last.out.calls = <<"decodeODAGroup">>
  /\ last.out.oda.has_app
  /\ last.out.oda.app_id = app_id

\* C26 as stated: a typed group whose (number, version) is not in the fixed
\* dispatch table goes to the ODA handler for application id X iff the most
\* recent processed 3A group naming that (number, version) carried X (in its
\* block 4); if no such 3A group was processed it goes to the unknown-ODA sink.
C26_AsStated ==
  (TypedGroupHandled /\ ~InFixedTable(getType(last.group))) =>
    IF getType(last.group) \in DOMAIN last.named
      THEN RoutedToOda(last.named[getType(last.group)])
      ELSE last.out.calls = <<"decodeODAGroup">> /\ last.out.oda = UnknownOdaSink

\* C26: a typed group whose (number, version) is not in the fixed dispatch
\* table goes to the ODA handler for application id X iff the most recent
\* processed 3A group that named that (number, version) and was received with
\* both block 3 and block 4 carried X; if there was no such 3A group it goes
\* to the unknown-ODA sink.
C26_OdaRouting ==
  (TypedGroupHandled /\ ~InFixedTable(getType(last.group))) =>
    IF getType(last.group) \in DOMAIN last.complete
      THEN RoutedToOda(last.complete[getType(last.group)])
      ELSE last.out.calls = <<"decodeODAGroup">> /\ last.out.oda = UnknownOdaSink

\* 11A was named twice, for RadioText Plus and then for application 0x1234:
\* the 11A group goes to the handler for 0x1234
C26_Witness ==
  /\ TypedGroupHandled
  /\ last.count = 3
  /\ getType(last.group) = [number |-> 11, version |-> "A"]
  /\ [number |-> 11, version |-> "A"] \in DOMAIN last.complete
  /\ last.complete[[number |-> 11, version |-> "A"]] = \h1234
  /\ last.pre.oda_app_for_group_[[number |-> 11, version |-> "A"]] = \h1234
  /\ RoutedToOda(\h1234)

\* C27: a Station without PI produces no output for any group; otherwise a
\* group with PI is always processed, and of consecutive groups without PI
\* only the one directly following a group that had PI is processed, every
\* further one being dropped without output until a group with PI arrives;
\* an empty group never produces output.
C27_PIPolicy ==
  last.op = "updateAndPrint" =>
    /\ ~last.pre.has_pi_ => ~last.out.printed
    /\ isEmpty(last.group) => ~last.out.printed
    /\ (last.pre.has_pi_ /\ hasPI(last.group)) => last.out.printed
    /\ (last.pre.has_pi_ /\ ~hasPI(last.group) /\ last.prev_had_pi = "yes") =>
         (last.out.printed <=> ~isEmpty(last.group))
    /\ (last.pre.has_pi_ /\ ~hasPI(last.group) /\ last.prev_had_pi = "no") =>
         ~last.out.printed
    /\ ~last.out.printed => last.out = NoOutput

\* the third group: the first had PI, the second had none and was let
\* through, this one has none either (it has block 2) and is dropped
C27_Witness ==
  /\ last.op = "updateAndPrint"
  /\ last.count = 3
  /\ last.pre.has_pi_
  /\ last.prev_had_pi = "no"
  /\ ~last.pre.last_group_had_pi_
  /\ ~hasPI(last.group)
  /\ has(last.group, BLOCK2)
  /\ ~last.out.printed
  /\ station = last.pre

\* the four hex digits of a 16-bit word, from the most significant
FourDigits(data) ==
  kHexDigits[((data \div 4096) % 16) + 1] \o kHexDigits[((data \div 256) % 16) + 1]
    \o kHexDigits[((data \div 16) % 16) + 1] \o kHexDigits[(data % 16) + 1]

SlotText(block) == IF block.is_received THEN FourDigits(block.data) ELSE "----"

\* C28: printHex writes exactly four words separated by single spaces, with
\* no trailing space; a received slot is written as its 16-bit data in four
\* uppercase zero-padded hex digits and a slot not received as "----".
C28_HexSerialization ==
  last.op = "printHex" =>
    /\ last.result = SlotText(TheGroup.blocks_[BLOCK1]) \o " "
                       \o SlotText(TheGroup.blocks_[BLOCK2]) \o " "
                       \o SlotText(TheGroup.blocks_[BLOCK3]) \o " "
                       \o SlotText(TheGroup.blocks_[BLOCK4])
    /\ Len(last.result) = 19

\* a group with block 3 missing is written as "E242 0000 ---- 2020"
C28_Witness ==
  /\ last.op = "printHex"
  /\ TheGroup.blocks_[BLOCK1].is_received /\ TheGroup.blocks_[BLOCK1].data = \hE242
  /\ TheGroup.blocks_[BLOCK2].is_received /\ TheGroup.blocks_[BLOCK2].data = \h0000
  /\ ~TheGroup.blocks_[BLOCK3].is_received
  /\ TheGroup.blocks_[BLOCK4].is_received /\ TheGroup.blocks_[BLOCK4].data = \h2020
  /\ last.result = "E242 0000 ---- 2020"

\* the bit position at which channel i last acquired sync
RECURSIVE LatestSync(_, _)
LatestSync(events, n) ==
  IF n = 0 THEN 0 - 1
  ELSE IF events[n].what = "sync" THEN events[n].at
  ELSE LatestSync(events, n - 1)

Countdown(i) == streams[i].num_bits_until_next_block_

\* C29: after every pushBit num_bits_until_next_block is 1 whenever the
\* BlockStream is out of sync and lies in 1..26 whenever it is in sync; it is
\* set to 26 by each block decision that leaves the BlockStream in sync, so
\* that the decisions made in sync are exactly 26 bits apart, counted from the
\* bit at which sync was acquired.
C29_CountdownInvariant ==
  \A i \in Inst :
    /\ ~InSync(i) => Countdown(i) = 1
    /\ InSync(i) =>
         /\ Countdown(i) \in 1..kBlockLength
         /\ LatestSync(acq[i], Len(acq[i])) >= 0
         /\ Countdown(i) = kBlockLength
              - ((BitsPushed(i) - LatestSync(acq[i], Len(acq[i]))) % kBlockLength)
    /\ (last.op = "pushBit" /\ last.inst = i) =>
         /\ (DecisionMade(last.pre) /\ InSync(i)) => Countdown(i) = kBlockLength
         /\ ~last.pre.is_in_sync_ => DecisionMade(last.pre)
         /\ last.pre.is_in_sync_ =>
              (DecisionMade(last.pre) <=>
                 /\ BitsPushed(i) > LatestSync(acq[i], Len(acq[i]))
                 /\ (BitsPushed(i) - LatestSync(acq[i], Len(acq[i]))) % kBlockLength = 0)

\* after a loss of sync and a re-acquisition, a block decision made in sync
\* restarts the countdown at 26
C29_Witness ==
  /\ last.op = "pushBit"
  /\ last.inst = 1
  /\ last.pre.is_in_sync_
  /\ DecisionMade(last.pre)
  /\ InSync(1)
  /\ Countdown(1) = kBlockLength
  /\ Len(acq[1]) = 3
  /\ BitsPushed(1) = LatestSync(acq[1], 3) + 2 * kBlockLength

\* the groups completed on channel 1 that the consumer took
TakenIndices == {taken.groups[k].index : k \in 1..Len(taken.groups)}

\* C30: no two groups become ready in one pushBit; every group the consumer
\* takes is a completed group, none is taken twice, and they are taken in the
\* order of their completion in the bit stream; a completed group that was
\* not taken is either still waiting in the ready slot or was replaced by the
\* group of a later cycle; a consumer that polls after every pushBit takes
\* every completed group.
C30_StreamOrderDelivery ==
  /\ \A j \in 1..(Len(log[1]) - 1) : log[1][j].at < log[1][j + 1].at
  /\ \A k \in 1..Len(taken.groups) :
       /\ taken.groups[k].index \in 1..Len(log[1])
       /\ taken.groups[k].group = log[1][taken.groups[k].index].group
  /\ \A k \in 1..(Len(taken.groups) - 1) :
       taken.groups[k].index < taken.groups[k + 1].index
  /\ \A j \in 1..Len(log[1]) :
       \/ j \in TakenIndices
       \/ j < Len(log[1])
       \/ (hasGroupReady(streams[1]) /\ streams[1].ready_group_ = log[1][j].group)
  /\ hasGroupReady(streams[1]) => Len(log[1]) \notin TakenIndices
  /\ taken.prompt =>
       \A j \in 1..Len(log[1]) :
         j \in TakenIndices \/ (j = Len(log[1]) /\ hasGroupReady(streams[1]))

\* the consumer polled after every bit and took three groups, all there were
C30_Witness ==
  /\ taken.prompt
  /\ Len(log[1]) = 3
  /\ Len(taken.groups) = 3
  /\ \A k \in 1..3 : taken.groups[k].index = k
  /\ last.op = "popGroup"
  /\ ~hasGroupReady(streams[1])
  /\ taken.groups[1].group # taken.groups[2].group

\* the last pushBit took its channel into sync
AcquiringDecision ==
  /\ last.op = "pushBit"
  /\ Acquired(last.pre, streams[last.inst])

\* the block of the window that the last pushBit looked at, as it is stored
\* when it is received without errors
WindowBlock ==
  [raw |-> WindowAfter(last.pre, last.bit),
   data |-> (WindowAfter(last.pre, last.bit) \div 2^kCheckwordLength) % kUint16,
   is_received |-> TRUE,
   had_errors |-> FALSE,
   offset |-> WindowOffset(last.pre, last.bit)]

\* the blocks decided on channel i since it last acquired sync, the acquiring
\* block included
BlocksSinceSync(i) ==
  (BitsPushed(i) - LatestSync(acq[i], Len(acq[i]))) \div kBlockLength + 1

\* C31: the block at which sync is acquired is processed as the first in-sync
\* block: it is stored in its slot with had_errors = false, a 0 is pushed into
\* the error window and expected_offset is advanced; no block seen before the
\* acquisition is stored, so the first group emitted after acquiring sync at
\* offset X has every slot before blockNumber(X) unreceived.
C31_AcquiringBlockIsFirst ==
  /\ AcquiringDecision =>
       \A post \in {streams[last.inst]} :
         /\ WindowOffset(last.pre, last.bit) # "invalid"
         /\ post.expected_offset_ = getNextOffsetFor(WindowOffset(last.pre, last.bit))
         /\ post.block_error_sum50_
              = RunningSum_push(last.pre.block_error_sum50_, 0)
         /\ (IF WindowOffset(last.pre, last.bit) = "D"
               THEN post.ready_group_ ELSE post.current_group_).blocks_
              = [Group_new.blocks_ EXCEPT
                   ![getBlockNumberForOffset(WindowOffset(last.pre, last.bit))]
                     = WindowBlock]
         /\ WindowOffset(last.pre, last.bit) = "D" =>
              (post.has_group_ready_ /\ post.current_group_ = Group_new)
  /\ \A i \in Inst :
       (/\ last.op = "pushBit" /\ last.inst = i
        /\ GroupCompleted(last.pre, streams[i])
        /\ LatestSync(acq[i], Len(acq[i])) >= 0
        /\ BlocksSinceSync(i) <= 4) =>
          /\ \A k \in BLOCK1..BLOCK4 :
               k < 4 - BlocksSinceSync(i) => ~has(streams[i].ready_group_, k)
          /\ has(streams[i].ready_group_, 4 - BlocksSinceSync(i))
          /\ ~streams[i].ready_group_.blocks_[4 - BlocksSinceSync(i)].had_errors

\* sync is acquired again after a loss, on a block C: the group emitted two
\* blocks later has slots 1 and 2 unreceived and slot 3 received
C31_Witness ==
  /\ last.op = "pushBit"
  /\ GroupCompleted(last.pre, streams[1])
  /\ Len(acq[1]) = 3
  /\ BlocksSinceSync(1) = 2
  /\ ReceivedSlots(streams[1].ready_group_) \subseteq {BLOCK3, BLOCK4}
  /\ has(streams[1].ready_group_, BLOCK3)

\* the offsets of the blocks that slot k may hold
SlotOffsets(k) ==
  IF k = BLOCK1 THEN {"A"}
  ELSE IF k = BLOCK2 THEN {"B"}
  ELSE IF k = BLOCK3 THEN {"C", "Cprime"}
  ELSE {"D"}

\* C32: in every reachable state each received slot k of current_group holds
\* a block with is_received = true whose offset maps to slot k (A, B, C or C',
\* D), and every slot with index >= blockNumber(expected_offset) is
\* unreceived: the slots are filled in the order A, B, C-or-C', D.
C32_SlotInvariant ==
  \A i \in Inst : \A k \in BLOCK1..BLOCK4 :
    /\ has(streams[i].current_group_, k) =>
         /\ streams[i].current_group_.blocks_[k].offset \in SlotOffsets(k)
         /\ getBlockNumberForOffset(streams[i].current_group_.blocks_[k].offset) = k
    /\ ~has(streams[i].current_group_, k) =>
         streams[i].current_group_.blocks_[k] = Block_new
    /\ k >= getBlockNumberForOffset(streams[i].expected_offset_) =>
         ~has(streams[i].current_group_, k)

\* blocks A, B and C' are in the group being assembled and D is expected
C32_Witness ==
  /\ InSync(1)
  /\ streams[1].expected_offset_ = "D"
  /\ ReceivedSlots(streams[1].current_group_) = {BLOCK1, BLOCK2, BLOCK3}
  /\ streams[1].current_group_.blocks_[BLOCK3].offset = "Cprime"

\* C33: between pushBit calls expected_offset is one of A, B, C, D: it is
\* never invalid, and C' is only a value inside one block decision (set by
\* the switch from C or by acquiring sync on a C' block) that is advanced to
\* D before pushBit returns.
C33_ExpectedOffsetRange ==
  \A i \in Inst :
    /\ streams[i].expected_offset_ \in {"A", "B", "C", "D"}
    /\ ( /\ last.op = "pushBit" /\ last.inst = i
          /\ DecisionMade(last.pre)
          /\ WindowOffset(last.pre, last.bit) = "Cprime"
          /\ \/ last.pre.is_in_sync_ /\ last.pre.expected_offset_ = "C"
             \/ Acquired(last.pre, streams[i]) )
        => streams[i].expected_offset_ = "D"

\* a C' block has just been decided with C expected
C33_Witness ==
  /\ last.op = "pushBit" /\ last.inst = 1
  /\ DecisionMade(last.pre)
  /\ last.pre.is_in_sync_ /\ last.pre.expected_offset_ = "C"
  /\ WindowOffset(last.pre, last.bit) = "Cprime"
  /\ streams[1].expected_offset_ = "D"

\* the fewest block decisions a BlockStream stays in sync for
kMinHold == kSyncLossThreshold + 1

\* C34: the 50-block error window is all zero at every sync acquisition and
\* while out of sync, so after any acquisition the BlockStream stays in
\* sync for at least 46 consecutive block decisions: a sync loss comes at
\* least 46 blocks after the acquisition before it.
C34_MinimumHoldTime ==
  \A i \in Inst :
    /\ ~streams[i].is_in_sync_ =>
         streams[i].block_error_sum50_.history_ = RunningSum_new.history_
    /\ (last.op = "pushBit" /\ last.inst = i /\ Acquired(last.pre, streams[i])) =>
         /\ last.pre.block_error_sum50_.history_ = RunningSum_new.history_
         /\ streams[i].block_error_sum50_.history_ = RunningSum_new.history_
    /\ \A n \in 1..Len(acq[i]) :
         acq[i][n].what = "loss" =>
           /\ n > 1
           /\ acq[i][n - 1].what = "sync"
           /\ acq[i][n].at - acq[i][n - 1].at >= kMinHold * kBlockLength

\* sync was lost at the earliest decision possible, the 46th after the
\* acquiring one
C34_Witness ==
  /\ Len(acq[1]) >= 2
  /\ acq[1][1].what = "sync"
  /\ acq[1][2].what = "loss"
  /\ acq[1][2].at - acq[1][1].at = kMinHold * kBlockLength
  /\ ~streams[1].is_in_sync_

\* the last step was a pushBit on channel i that began out of sync
OutOfSyncPush(i) ==
  last.op = "pushBit" /\ last.inst = i /\ ~last.pre.is_in_sync_

\* C35: a pushBit that starts out of sync and does not acquire sync leaves
\* expected_offset, current_group, ready_group, has_group_ready and the error
\* window unchanged; a partial group assembled before a sync loss is not
\* emitted later: the acquisition clears current_group, so that the group
\* assembled from then on holds the acquiring block and nothing older.
C35_NoEmissionOutOfSync ==
  \A i \in Inst :
    /\ (OutOfSyncPush(i) /\ ~streams[i].is_in_sync_) =>
         /\ streams[i].expected_offset_ = last.pre.expected_offset_
         /\ streams[i].current_group_ = last.pre.current_group_
         /\ streams[i].ready_group_ = last.pre.ready_group_
         /\ streams[i].has_group_ready_ = last.pre.has_group_ready_
         /\ streams[i].block_error_sum50_ = last.pre.block_error_sum50_
         /\ streams[i].num_bits_until_next_block_ = last.pre.num_bits_until_next_block_
         /\ streams[i].bitcount_ = last.pre.bitcount_ + 1
         /\ streams[i].input_register_ = ShiftIn(last.pre.input_register_, last.bit)
    /\ (OutOfSyncPush(i) /\ streams[i].is_in_sync_) =>
         IF WindowOffset(last.pre, last.bit) = "D"
           THEN /\ streams[i].current_group_ = Group_new
                /\ ReceivedSlots(streams[i].ready_group_) = {BLOCK4}
           ELSE /\ ReceivedSlots(streams[i].current_group_)
                     = {getBlockNumberForOffset(WindowOffset(last.pre, last.bit))}
                /\ streams[i].ready_group_ = last.pre.ready_group_
                /\ streams[i].has_group_ready_ = last.pre.has_group_ready_

\* sync is acquired again while the group left over from before the loss
\* still holds a received block
C35_Witness ==
  /\ OutOfSyncPush(1) /\ streams[1].is_in_sync_
  /\ ReceivedSlots(last.pre.current_group_) # {}
  /\ Len(acq[1]) = 3

\* the bit count at which channel i last lost sync, 0 if it never was in sync
OutOfSyncSince(i) ==
  IF acq[i] = << >> THEN 0 ELSE acq[i][Len(acq[i])].at

\* C36: getNumBitsSinceSyncLost() is 0 in every state in which the
\* BlockStream is in sync; while out of sync it equals the number of bits
\* pushed since sync was lost (since construction if sync was never
\* acquired) and increases by exactly 1 per pushBit.
C36_DiagnosticCounter ==
  \A i \in Inst :
    /\ streams[i].is_in_sync_ => getNumBitsSinceSyncLost(streams[i]) = 0
    /\ ~streams[i].is_in_sync_ =>
         /\ acq[i] # << >> => acq[i][Len(acq[i])].what = "loss"
         /\ getNumBitsSinceSyncLost(streams[i])
              = streams[i].bitcount_ - OutOfSyncSince(i)
    /\ (OutOfSyncPush(i) /\ ~streams[i].is_in_sync_) =>
         getNumBitsSinceSyncLost(streams[i])
           = getNumBitsSinceSyncLost(last.pre) + 1

\* thirty bits after a sync loss
C36_Witness ==
  /\ ~streams[1].is_in_sync_
  /\ Len(acq[1]) = 2
  /\ acq[1][2].what = "loss"
  /\ streams[1].bitcount_ = acq[1][2].at + 30
  /\ getNumBitsSinceSyncLost(streams[1]) = 30

RECURSIVE SumOfLast(_, _)
\* the sum of the last n values of the sequence s (of all if it has fewer)
SumOfLast(s, n) ==
  IF n = 0 \/ s = << >> THEN 0
  ELSE s[Len(s)] + SumOfLast(SubSeq(s, 1, Len(s) - 1), n - 1)

\* C37: after any sequence of push and clear operations on
\* RunningSum<int, 50>, getSum() is the sum of the values pushed since the
\* last clear, restricted to the most recent 50 pushes; it is 0 right after
\* construction and right after clear, wherever the write position is, and
\* with 0/1 inputs it lies in 0..50.
C37_RunningSumWindow ==
  last.op \in {"RunningSum", "push", "clear"} =>
    /\ getSum(streams[1].block_error_sum50_) = SumOfLast(last.pushed, kSumWindow)
    /\ last.op \in {"RunningSum", "clear"} =>
         getSum(streams[1].block_error_sum50_) = 0
    /\ getSum(streams[1].block_error_sum50_) \in 0..kSumWindow

\* more than 50 pushes after a clear that found the write position in the
\* middle of the window
C37_Witness ==
  /\ last.op = "push"
  /\ last.clears = 1
  /\ Len(last.pushed) > kSumWindow
  /\ streams[1].block_error_sum50_.pointer_ \notin {0, Len(last.pushed) % kSumWindow}
  /\ getSum(streams[1].block_error_sum50_) > 0
  /\ getSum(streams[1].block_error_sum50_) < SumOfLast(last.pushed, Len(last.pushed))

\* the types of the first part of the if-chain, and their handlers
NotForOda(type) ==
  \/ type.number \in {0, 1, 2, 14}
  \/ (type.number \in {3, 4, 10} /\ type.version = "A")
  \/ (type.number = 15 /\ type.version = "B")

FixedHandler(type) ==
  CASE type.number = 0 -> "decodeType0"
    [] type.number = 1 -> "decodeType1"
    [] type.number = 2 -> "decodeType2"
    [] type.number = 3 -> "decodeType3A"
    [] type.number = 4 -> "decodeType4A"
    [] type.number = 10 -> "decodeType10A"
    [] type.number = 14 -> "decodeType14"
    [] type.number = 15 -> "decodeType15B"

\* C38: a 3A group registers an application id for a (number, version) pair
\* only if its blocks 3 and 4 are both received, and a registration never
\* changes the routing of types 0A/0B, 1A/1B, 2A/2B, 3A, 4A, 10A, 14A/14B and
\* 15B: a typed group of one of them goes to its fixed handler even when a 3A
\* group has named its type as an ODA group.
C38_OdaRegistrationLimits ==
  last.op = "updateAndPrint" =>
    /\ station.oda_app_for_group_ # last.pre.oda_app_for_group_ =>
         /\ IsRegistration(last)
         /\ has(last.group, BLOCK3) /\ has(last.group, BLOCK4)
         /\ station.oda_app_for_group_
              = (GroupType(getBlock2(last.group) % 32) :> getBlock4(last.group))
                  @@ last.pre.oda_app_for_group_
    /\ (IsRegistration(last) /\ ~(has(last.group, BLOCK3) /\ has(last.group, BLOCK4))) =>
         station.oda_app_for_group_ = last.pre.oda_app_for_group_
    /\ (TypedGroupHandled /\ NotForOda(getType(last.group))) =>
         /\ last.out.calls = <<FixedHandler(getType(last.group))>>
         /\ last.out.oda = NoOda

\* a 15B group is handled after a 3A group has registered an application
\* for 15B
C38_Witness ==
  /\ TypedGroupHandled
  /\ getType(last.group) = [number |-> 15, version |-> "B"]
  /\ getType(last.group) \in DOMAIN last.pre.oda_app_for_group_
  /\ last.out.calls = <<"decodeType15B">>

\* x is that of a user message, single-group or part of a multi-group one
IsUserMessage(x) == bits(x, 0, 5) # 0 /\ bits(x, 4, 1) = 0

\* C39: TMC::userGroup changes no TMC state and emits nothing until a system
\* group with bit 14 = 0 has initialized the decoder; once initialized, if
\* the service is encrypted (location table number 0), user messages, single-
\* or multi-group, are dropped until an encryption administration group
\* (x bits 4..0 = 0) has supplied the encryption id.
C39_TmcGating ==
  last.op \in {"TMC", "systemGroup", "userGroup"} =>
    /\ station.tmc_.is_initialized_ = last.system_seen
    /\ station.tmc_.has_encid_ = last.encid_seen
    /\ last.system_seen => station.tmc_.is_encrypted_ = last.encrypted
    /\ (last.op = "userGroup" /\ ~last.system_seen) =>
         (station.tmc_ = last.pre /\ last.out = << >>)
    /\ (/\ last.op = "userGroup" /\ last.system_seen
        /\ last.encrypted /\ ~last.encid_seen
        /\ IsUserMessage(last.x)) =>
         (station.tmc_ = last.pre /\ last.out = << >>)

\* a single-group message is dropped by the initialized decoder of an
\* encrypted service, one group after a tuning information group was decoded
C39_Witness ==
  /\ last.op = "userGroup"
  /\ last.system_seen /\ last.encrypted /\ ~last.encid_seen
  /\ last.x = \h09
  /\ last.pre.ps_.set # {}
  /\ last.out = << >>

ReceivedParts(buffer) == {k \in DOMAIN buffer : buffer[k].is_received}

\* C40: the slot computed for a part of a multi-group message (0 for a first
\* group, 1 for a second group, otherwise 4 minus the group sequence
\* indicator) lies within the 5-entry buffer; when the continuity index of
\* the part differs from the current one the buffered message is emitted
\* once and all five slots are marked unreceived before the part is stored,
\* so that no emitted message combines parts with different continuity
\* indices.
C40_TmcMultiGroup ==
  last.op \in {"TMC", "systemGroup", "userGroup"} =>
    /\ \A a, b \in ReceivedParts(station.tmc_.multi_group_buffer_) :
         last.slot_ci[a] = last.slot_ci[b]
    /\ (last.op = "userGroup" /\ PartTaken(last.pre, last.x)) =>
         \E slot \in {IF last.y >= 2^15 THEN 0
                       ELSE IF last.y >= 2^14 THEN 1
                       ELSE 4 - (last.y \div 2^12)} :
           /\ slot \in 0..(kNumParts - 1)
           /\ station.tmc_.multi_group_buffer_[slot]
                = [is_received |-> TRUE, data |-> Vec(<<last.y, last.z>>)]
           /\ station.tmc_.current_ci_ = last.x % 8
           /\ IF last.x % 8 # last.pre.current_ci_
                THEN /\ Len(last.out) = 1
                     /\ last.out[1].kind = "tmc_message" /\ last.out[1].is_multi
                     /\ ReceivedParts(station.tmc_.multi_group_buffer_) = {slot}
                     /\ \A n, k \in 1..Len(last.out[1].used) :
                          /\ last.pre_slot_ci[last.out[1].used[n]] # NoContinuity
                          /\ last.pre_slot_ci[last.out[1].used[n]]
                               = last.pre_slot_ci[last.out[1].used[k]]
                ELSE /\ last.out = << >>
                     /\ ReceivedParts(station.tmc_.multi_group_buffer_)
                          = ReceivedParts(last.pre.multi_group_buffer_) \cup {slot}
    /\ (last.op = "userGroup" /\ ~PartTaken(last.pre, last.x)) =>
         station.tmc_.multi_group_buffer_ = last.pre.multi_group_buffer_

\* a part with continuity index 2 arrives with the first and second group of
\* a message with continuity index 1 in the buffer: that message is emitted
C40_Witness ==
  /\ last.op = "userGroup" /\ PartTaken(last.pre, last.x)
  /\ last.x = \h02
  /\ last.pre.current_ci_ = 1
  /\ Len(last.out) = 1
  /\ last.out[1].used = <<0, 1>>
  /\ last.pre_slot_ci[0] = 1 /\ last.pre_slot_ci[1] = 1
  /\ Cardinality(ReceivedParts(station.tmc_.multi_group_buffer_)) = 1

===========================================================================
